---------------------------- MODULE Spec2Model ----------------------------
(***************************************************************************)
(* PLM Lite: part lifecycle (create / update / checkout / release /        *)
(* revise), audit log, and the document version-rotation store.            *)
(*                                                                         *)
(* Text values whose characters the code inspects (part_number,            *)
(* part_revision) are sequences of code points, so that ord(), chr(),      *)
(* strip() and upper() are computed as Python computes them.  File names   *)
(* and paths are strings built with \o, as the f-strings build them.       *)
(***************************************************************************)
EXTENDS Integers, Sequences, FiniteSets, TLC

VARIABLES
    parts,           \* table parts: id -> row
    part_revisions,  \* table part_revisions, in insertion order
    audit_log,       \* table audit_log, in insertion order
    now,             \* the wall clock, in seconds
    resp,            \* the response of the most recently completed request
    documents,       \* table documents: id -> row
    file_versions,   \* table file_versions: id -> row
    disk,            \* the file system under FILES_ROOT: path -> bytes
    pc,              \* per in-flight request: the statement it is about to run
    call,            \* per in-flight request: its arguments
    seen,            \* per in-flight request: what its last read returned
    result,          \* per in-flight request: the response it returned
    part_relationships,  \* table part_relationships: id -> row
    part_attributes,     \* table part_attributes: id -> row
    trav                 \* the FlatBOM or Tree traversal in progress

vars == <<parts, part_revisions, audit_log, now, resp, documents,
          file_versions, disk, pc, call, seen, result, part_relationships,
          part_attributes, trav>>

partVars == <<parts, part_revisions>>
docVars  == <<documents, file_versions, disk>>
reqVars  == <<pc, call, seen, result>>
graphVars == <<part_relationships, part_attributes, trav>>

-----------------------------------------------------------------------------
(* Bounds of the model *)

MaxParts == 2        \* parts that may be created
MaxAudit == 3        \* audit entries written in Spec
MaxClock == 2        \* last second of a minute the clock is seen at
NumWorkers == 2      \* requests that may be in flight together
MaxMinute == 5       \* last minute the clock reaches (it starts in minute 1)
MaxDocs == 1         \* Document rows that may be created
MaxVersions == 4     \* FileVersion rows that may be created
MaxRestoreVersions == 2  \* FileVersion rows created in SpecRestore
MaxRestoreMinute == 2    \* last minute the clock reaches in SpecRestore
MaxNotFoundVersions == 4 \* FileVersion rows created in SpecNotFound
MaxNotFoundMinute == 2   \* last minute the clock reaches in SpecNotFound
MaxGraphParts == 2    \* parts created in SpecGraph
MaxEdges == 2         \* BOM edges that may be created in SpecGraph
MaxGraphAudit == 5    \* audit entries written in SpecGraph
MaxBomParts == 3      \* parts created in SpecBom
MaxBomEdges == 2      \* BOM edges created in SpecBom
MaxTravParts == 2     \* parts created in SpecTraverse
MaxTravEdges == 2     \* BOM edges created in SpecTraverse
MaxAuditParts == 1    \* parts created in SpecAudit
MaxAuditVersions == 1 \* FileVersion rows created in SpecAudit
MaxAuditEntries == 3  \* audit entries written in SpecAudit
MaxPathLen == 4       \* components of a stored path in SpecPath
MaxUpsertParts == 2   \* parts created in SpecUpsert
MaxUpsertDocs == 3    \* Document rows created in SpecUpsert
MaxUpsertVersions == 1 \* FileVersion rows created in SpecUpsert
MaxIdemParts == 1     \* parts created in SpecIdem
MaxIdemAudit == 4     \* audit entries written in SpecIdem
MaxHoldParts == 1     \* parts created in SpecHold
MaxHoldAudit == 3     \* audit entries written in SpecHold
MaxOrderParts == 3    \* parts created in SpecOrder
MaxOrderEdges == 2    \* BOM edges created in SpecOrder
MaxRaceParts == 1     \* parts created in SpecReviseRace
MaxRaceAudit == 3     \* audit entries written in SpecReviseRace
MaxGuardParts == 1    \* parts created in SpecGuardRace
MaxGuardAudit == 4    \* audit entries written in SpecGuardRace
MaxFrameParts == 1    \* parts created in SpecFrame
MaxFrameAudit == 4    \* audit entries written in SpecFrame
MaxStepParts == 1     \* parts created in SpecFileSteps
MaxStepVersions == 2  \* FileVersion rows created in SpecFileSteps
MaxBackupVersions == 4  \* FileVersion rows created in SpecBackup
MaxBackupMinute == 2    \* last minute the clock reaches in SpecBackup
MaxCrossParts == 1      \* parts created in SpecCross
MaxCrossDocs == 2       \* Document rows created in SpecCross
MaxCrossVersions == 2   \* FileVersion rows created in SpecCross
MaxIndepParts == 1      \* parts that exist at a time in SpecIndep
MaxIndepAudit == 4      \* audit entries written in SpecIndep

-----------------------------------------------------------------------------
(* Program values *)

NULL == 0            \* SQL NULL in an INTEGER or DATETIME column (ids and
                     \* timestamps start at 1)
NullText == "NULL"   \* SQL NULL in a TEXT column
None == {}           \* Python None where a method returns Optional[dict];
                     \* a row that was found is returned as {row}

Users  == {1, 2}     \* active users whose role grants every ability asked for
Admins == {1}        \* the seeded "admin" user has role Admin (can_admin = 1)
Engineers == Users \ Admins

Max(S) == CHOOSE x \in S : \A y \in S : y <= x

-----------------------------------------------------------------------------
(* Text as code points *)

IsSpace(c) == c \in {9, 10, 11, 12, 13, 32}

RECURSIVE lstrip(_)
lstrip(s) == IF s # <<>> /\ IsSpace(Head(s)) THEN lstrip(Tail(s)) ELSE s

RECURSIVE rstrip(_)
rstrip(s) == IF s # <<>> /\ IsSpace(s[Len(s)])
             THEN rstrip(SubSeq(s, 1, Len(s) - 1)) ELSE s

strip(s) == rstrip(lstrip(s))

upper_char(c) == IF c \in 97..122 THEN c - 32 ELSE c
upper(s) == [i \in 1..Len(s) |-> upper_char(s[i])]


-----------------------------------------------------------------------------
(* AuditLog *)

NoDetail == [k \in {} |-> NULL]     \* the detail {} of an entry without payload

\* Mutant of _log_audit: the new entry is put in front of the log.
_log_audit_newest_first(log, user_id, action, entity_type, entity_id, detail) ==
    <<[user_id |-> user_id, action |-> action,
       entity_type |-> entity_type, entity_id |-> entity_id,
       detail |-> detail]>> \o log

_log_audit(log, user_id, action, entity_type, entity_id, detail) ==
    Append(log, [user_id |-> user_id, action |-> action,
                 entity_type |-> entity_type, entity_id |-> entity_id,
                 detail |-> detail])

-----------------------------------------------------------------------------
(* PartRegistry: the store's methods, as functions of the tables *)

CURRENT_TIMESTAMP == now

\* Column defaults of table parts for the columns create_part does not set.
part_defaults ==
    [release_status |-> "Prototype", is_locked |-> 0,
     checked_out_by |-> NULL, checked_out_at |-> NULL,
     checked_out_station |-> NullText,
     created_at |-> CURRENT_TIMESTAMP, updated_at |-> CURRENT_TIMESTAMP]

NextId(rows) == IF DOMAIN rows = {} THEN 1 ELSE Max(DOMAIN rows) + 1

\* Mutant of pn_not_empty: the validator trims and does not uppercase.
pn_not_empty_no_upper(v) == strip(v)

\* PartCreate.pn_not_empty: the validator of the part_number of a Create body.
pn_valid(v) == strip(v) # <<>>
pn_not_empty(v) == upper(strip(v))

get_part(P, part_id) == IF part_id \in DOMAIN P THEN {P[part_id]} ELSE None

get_part_by_number(P, part_number) ==
    IF \E id \in DOMAIN P : P[id].part_number = part_number
    THEN get_part(P, CHOOSE id \in DOMAIN P : P[id].part_number = part_number)
    ELSE None

create_part(P, data, created_by) ==
    LET id  == NextId(P)
        row == [part_number   |-> data.part_number,
                part_name     |-> data.part_name,
                part_revision |-> data.part_revision,
                description   |-> data.description,
                part_level    |-> data.part_level,
                created_by    |-> created_by,
                release_status      |-> part_defaults.release_status,
                is_locked           |-> part_defaults.is_locked,
                checked_out_by      |-> part_defaults.checked_out_by,
                checked_out_at      |-> part_defaults.checked_out_at,
                checked_out_station |-> part_defaults.checked_out_station,
                created_at          |-> part_defaults.created_at,
                updated_at          |-> part_defaults.updated_at]
    IN  [i \in DOMAIN P \cup {id} |-> IF i = id THEN row ELSE P[i]]

\* Mutant of update_part: the UPDATE also sets part_number.
update_part_renumbers(P, part_id, data) ==
    [P EXCEPT ![part_id].part_number = <<88>>,
              ![part_id].part_name   = data.part_name,
              ![part_id].description = data.description,
              ![part_id].part_level  = data.part_level,
              ![part_id].updated_at  = CURRENT_TIMESTAMP]

update_part(P, part_id, data) ==
    [P EXCEPT ![part_id].part_name   = data.part_name,
              ![part_id].description = data.description,
              ![part_id].part_level  = data.part_level,
              ![part_id].updated_at  = CURRENT_TIMESTAMP]

\* checkout_part, line 313-314: the row read and the test on it
checkout_row(P, part_id) ==
    IF part_id \in DOMAIN P THEN {[checked_out_by |-> P[part_id].checked_out_by]}
    ELSE None
\* Mutant of checkout_free: the test on checked_out_by is dropped.
checkout_free_any_holder(row) == row # None
checkout_free(row) == row # None /\ \A r \in row : r.checked_out_by = NULL

\* checkout_part, line 316-319: the UPDATE, which carries no condition
checkout_write(P, part_id, user_id, station) ==
    IF part_id \in DOMAIN P
    THEN [P EXCEPT ![part_id].checked_out_by      = user_id,
                   ![part_id].checked_out_at      = CURRENT_TIMESTAMP,
                   ![part_id].checked_out_station = station]
    ELSE P

checkin_part(P, part_id) ==
    [P EXCEPT ![part_id].checked_out_by      = NULL,
              ![part_id].checked_out_at      = NULL,
              ![part_id].checked_out_station = NullText]

\* Mutant of release_part: the UPDATE forgets is_locked.
release_part_status_only(P, part_id) ==
    [P EXCEPT ![part_id].release_status = "Released",
              ![part_id].updated_at     = CURRENT_TIMESTAMP]

\* Mutant of release_part: the UPDATE flips is_locked.
release_part_flips_lock(P, part_id) ==
    [P EXCEPT ![part_id].release_status = "Released",
              ![part_id].is_locked      = 1 - @,
              ![part_id].updated_at     = CURRENT_TIMESTAMP]

\* Mutant of release_part: a part that is checked out is left as it is.
release_part_unless_held(P, part_id) ==
    IF P[part_id].checked_out_by # NULL THEN P
    ELSE [P EXCEPT ![part_id].release_status = "Released",
                   ![part_id].is_locked      = 1,
                   ![part_id].updated_at     = CURRENT_TIMESTAMP]

\* Mutant of release_part: the UPDATE also clears the checkout.
release_part_checks_in(P, part_id) ==
    [P EXCEPT ![part_id].release_status      = "Released",
              ![part_id].is_locked           = 1,
              ![part_id].checked_out_by      = NULL,
              ![part_id].checked_out_at      = NULL,
              ![part_id].checked_out_station = NullText,
              ![part_id].updated_at          = CURRENT_TIMESTAMP]

release_part(P, part_id) ==
    [P EXCEPT ![part_id].release_status = "Released",
              ![part_id].is_locked      = 1,
              ![part_id].updated_at     = CURRENT_TIMESTAMP]

\* Mutant of unrelease_part: the status is reset and the lock is left set.
unrelease_part_keeps_lock(P, part_id) ==
    [P EXCEPT ![part_id].release_status = "Prototype",
              ![part_id].updated_at     = CURRENT_TIMESTAMP]

unrelease_part(P, part_id) ==
    [P EXCEPT ![part_id].release_status = "Prototype",
              ![part_id].is_locked      = 0,
              ![part_id].updated_at     = CURRENT_TIMESTAMP]

\* Mutant of next_revision: every revision after the first is "B".
next_revision_always_B(current_rev) == <<66>>

\* bump_revision, line 357.  chr() raises ValueError above sys.maxunicode.
MaxUnicode == 1114111
chr(i) == <<i>>
ord(c) == c
chr_raises(current_rev) ==
    current_rev # <<>> /\ ord(current_rev[Len(current_rev)]) + 1 > MaxUnicode
next_revision(current_rev) ==
    IF current_rev # <<>> THEN chr(ord(current_rev[Len(current_rev)]) + 1)
    ELSE <<66>>

\* bump_revision, line 359-362: the snapshot row
revision_row(part_id, part, description, user_id) ==
    [part_id |-> part_id, revision_label |-> part.part_revision,
     description |-> description, changed_by |-> user_id,
     snapshot_json |-> part, changed_at |-> CURRENT_TIMESTAMP]

\* Mutant of bump_write: the UPDATE sets the label and leaves the lock.
bump_write_keeps_lock(P, part_id, next_rev) ==
    [P EXCEPT ![part_id].part_revision = next_rev,
              ![part_id].updated_at    = CURRENT_TIMESTAMP]

\* bump_revision, line 363-366: the UPDATE
bump_write(P, part_id, next_rev) ==
    [P EXCEPT ![part_id].part_revision  = next_rev,
              ![part_id].is_locked      = 0,
              ![part_id].release_status = "Prototype",
              ![part_id].updated_at     = CURRENT_TIMESTAMP]

-----------------------------------------------------------------------------
(* PartRegistry: the request handlers, each run from request to response *)

Response(op, id, user, status, arg, ret) ==
    [op |-> op, id |-> id, user |-> user, status |-> status,
     arg |-> arg, ret |-> ret]

RawPartNumbers == { <<97, 49>>,           \* "a1"
                    <<32, 65, 49, 32>>,   \* " A1 "
                    <<98>>,               \* "b"
                    <<32>> }              \* " "
Revisions == { <<65>>,                    \* "A"
               <<65, 49>>,                \* "A1"
               <<>> }                     \* ""
PartNames == {"bracket"}
PartUpdates ==
    { [part_name |-> "bracket", description |-> "", part_level |-> ""],
      [part_name |-> "plate", description |-> "6 mm", part_level |-> "L2"] }
Stations == {"", "ws7"}
PartIds == 1..MaxParts

\* POST /api/parts
Create(raw, name, rev, user) ==
    LET body == [part_number |-> pn_not_empty(raw), part_name |-> name,
                 part_revision |-> rev, description |-> "", part_level |-> ""]
        P2   == create_part(parts, body, user)
        id   == CHOOSE i \in DOMAIN P2 : P2[i].part_number = body.part_number
    IN  /\ IF ~pn_valid(raw)
           THEN /\ resp' = Response("create", NULL, user, 422, raw, None)
                /\ UNCHANGED <<parts, audit_log>>
           ELSE IF get_part_by_number(parts, body.part_number) # None
           THEN /\ resp' = Response("create", NULL, user, 409, raw, None)
                /\ UNCHANGED <<parts, audit_log>>
           ELSE /\ parts' = P2
                /\ audit_log' = _log_audit(audit_log, user, "create_part", "part",
                                           id, [part_number |-> P2[id].part_number])
                /\ resp' = Response("create", id, user, 201, raw, {P2[id]})
        /\ UNCHANGED <<part_revisions, now, graphVars, docVars, reqVars>>

\* PUT /api/parts/{part_id}
Update(part_id, data, user) ==
    LET part == get_part(parts, part_id)
        P2   == update_part(parts, part_id, data)
    IN  /\ IF part = None
           THEN /\ resp' = Response("update", part_id, user, 404, data, None)
                /\ UNCHANGED <<parts, audit_log>>
           ELSE IF \E p \in part : p.is_locked # 0
           THEN /\ resp' = Response("update", part_id, user, 423, data, None)
                /\ UNCHANGED <<parts, audit_log>>
           ELSE /\ parts' = P2
                /\ audit_log' = _log_audit(audit_log, user, "update_part", "part",
                                           part_id, data)
                /\ resp' = Response("update", part_id, user, 200, data,
                                    get_part(P2, part_id))
        /\ UNCHANGED <<part_revisions, now, graphVars, docVars, reqVars>>

\* POST /api/parts/{part_id}/checkout
Checkout(part_id, station, user) ==
    LET P2 == checkout_write(parts, part_id, user, station)
    IN  /\ IF get_part(parts, part_id) = None
           THEN /\ resp' = Response("checkout", part_id, user, 404, station, None)
                /\ UNCHANGED <<parts, audit_log>>
           ELSE IF ~checkout_free(checkout_row(parts, part_id))
           THEN /\ resp' = Response("checkout", part_id, user, 409, station, None)
                /\ UNCHANGED <<parts, audit_log>>
           ELSE /\ parts' = P2
                /\ audit_log' = _log_audit(audit_log, user, "checkout", "part",
                                           part_id, [station |-> station])
                /\ resp' = Response("checkout", part_id, user, 200, station,
                                    get_part(P2, part_id))
        /\ UNCHANGED <<part_revisions, now, graphVars, docVars, reqVars>>

\* POST /api/parts/{part_id}/checkin
\* Mutant of can_admin: every user passes for an admin.
can_admin_everyone(user) == user \in Users
can_admin(user) == user \in Admins
Checkin(part_id, user) ==
    LET part == get_part(parts, part_id)
        P2   == checkin_part(parts, part_id)
    IN  /\ IF part = None
           THEN /\ resp' = Response("checkin", part_id, user, 404, NULL, None)
                /\ UNCHANGED <<parts, audit_log>>
           ELSE IF (\E p \in part : p.checked_out_by # user) /\ ~can_admin(user)
           THEN /\ resp' = Response("checkin", part_id, user, 403, NULL, None)
                /\ UNCHANGED <<parts, audit_log>>
           ELSE /\ parts' = P2
                /\ audit_log' = _log_audit(audit_log, user, "checkin", "part",
                                           part_id, NoDetail)
                /\ resp' = Response("checkin", part_id, user, 200, NULL,
                                    get_part(P2, part_id))
        /\ UNCHANGED <<part_revisions, now, graphVars, docVars, reqVars>>

\* POST /api/parts/{part_id}/release
Release(part_id, user) ==
    LET P2 == release_part(parts, part_id)
    IN  /\ IF get_part(parts, part_id) = None
           THEN /\ resp' = Response("release", part_id, user, 404, NULL, None)
                /\ UNCHANGED <<parts, audit_log>>
           ELSE /\ parts' = P2
                /\ audit_log' = _log_audit(audit_log, user, "release", "part",
                                           part_id, NoDetail)
                /\ resp' = Response("release", part_id, user, 200, NULL,
                                    get_part(P2, part_id))
        /\ UNCHANGED <<part_revisions, now, graphVars, docVars, reqVars>>

\* POST /api/parts/{part_id}/unreleased
Unrelease(part_id, user) ==
    LET P2 == unrelease_part(parts, part_id)
    IN  /\ IF get_part(parts, part_id) = None
           THEN /\ resp' = Response("unrelease", part_id, user, 404, NULL, None)
                /\ UNCHANGED <<parts, audit_log>>
           ELSE /\ parts' = P2
                /\ audit_log' = _log_audit(audit_log, user, "unrelease", "part",
                                           part_id, NoDetail)
                /\ resp' = Response("unrelease", part_id, user, 200, NULL,
                                    get_part(P2, part_id))
        /\ UNCHANGED <<part_revisions, now, graphVars, docVars, reqVars>>

\* POST /api/parts/{part_id}/revise, with Database.bump_revision
ReviseRevision(part_id, description, user) ==
    LET part        == get_part(parts, part_id)
        row         == CHOOSE p \in part : TRUE
        current_rev == row.part_revision
        next_rev    == next_revision(current_rev)
    IN  /\ IF part = None
           THEN /\ resp' = Response("revise", part_id, user, 404, description, None)
                /\ UNCHANGED <<parts, part_revisions, audit_log>>
           ELSE IF chr_raises(current_rev)
           THEN /\ resp' = Response("revise", part_id, user, 500, description, None)
                /\ UNCHANGED <<parts, part_revisions, audit_log>>
           ELSE /\ part_revisions' =
                       Append(part_revisions,
                              revision_row(part_id, row, description, user))
                /\ parts' = bump_write(parts, part_id, next_rev)
                /\ audit_log' = _log_audit(audit_log, user, "bump_revision", "part",
                                           part_id,
                                           [from |-> current_rev, to |-> next_rev])
                /\ resp' = Response("revise", part_id, user, 200, description,
                                    next_rev)
        /\ UNCHANGED <<now, graphVars, docVars, reqVars>>

\* A second passes on the wall clock.
Tick ==
    /\ now' = now + 1
    /\ UNCHANGED <<parts, part_revisions, audit_log, resp, graphVars, docVars, reqVars>>

-----------------------------------------------------------------------------
(* The store after Database.initialize(): every table empty but roles/users *)

Workers == 1..NumWorkers

Init ==
    /\ parts = << >>
    /\ part_revisions = << >>
    /\ audit_log = << >>
    /\ now = 60
    /\ resp = Response("none", NULL, NULL, 0, NULL, None)
    /\ documents = << >>
    /\ file_versions = << >>
    /\ disk = << >>
    /\ pc = [w \in Workers |-> "idle"]
    /\ call = [w \in Workers |-> NULL]
    /\ seen = [w \in Workers |-> None]
    /\ result = [w \in Workers |-> NULL]
    /\ part_relationships = << >>
    /\ part_attributes = << >>
    /\ trav = [op |-> "idle"]

\* The bounds of a specification: a request is left out when it would write
\* more than n audit entries or create more than MaxParts parts, and the
\* clock stops at second MaxClock of a minute.
Budget(n) == Len(audit_log') <= n
MayCreate == Cardinality(DOMAIN parts') <= MaxParts
TickSecond == Tick /\ now' % 60 <= MaxClock

-----------------------------------------------------------------------------
(* Spec: the part lifecycle, one request at a time *)

CreateReq ==
    /\ \E raw \in RawPartNumbers, name \in PartNames, rev \in Revisions,
          u \in Engineers : Create(raw, name, rev, u)
    /\ Budget(MaxAudit) /\ MayCreate
UpdateReq ==
    /\ \E id \in DOMAIN parts, d \in PartUpdates, u \in Engineers :
          Update(id, d, u)
    /\ Budget(MaxAudit)
CheckoutReq ==
    /\ \E id \in DOMAIN parts, st \in {"ws7"}, u \in Users : Checkout(id, st, u)
    /\ Budget(MaxAudit)
CheckinReq ==
    /\ \E id \in DOMAIN parts, u \in Users : Checkin(id, u)
    /\ Budget(MaxAudit)
ReleaseReq ==
    /\ \E id \in DOMAIN parts, u \in Admins : Release(id, u)
    /\ Budget(MaxAudit)
UnreleaseReq ==
    /\ \E id \in DOMAIN parts, u \in Admins : Unrelease(id, u)
    /\ Budget(MaxAudit)
ReviseReq ==
    /\ \E id \in DOMAIN parts, u \in Engineers : ReviseRevision(id, "", u)
    /\ Budget(MaxAudit)

Next ==
    \/ CreateReq
    \/ UpdateReq
    \/ CheckoutReq
    \/ CheckinReq
    \/ ReleaseReq
    \/ UnreleaseReq
    \/ ReviseReq

Spec == Init /\ [][Next]_vars

-----------------------------------------------------------------------------
(* Properties of the part lifecycle *)

IsLocked(p)  == parts[p].is_locked # 0
Snapshots(p) == SelectSeq(part_revisions, LAMBDA r : r.part_id = p)
Entries(p, action) ==
    SelectSeq(audit_log, LAMBDA e : e.entity_type = "part" /\ e.entity_id = p
                                    /\ e.action = action)

\* C2: in every reachable state every part has is_locked true if and only if
\* its release_status is Released.
C2_LockedIffReleased ==
    \A p \in DOMAIN parts : IsLocked(p) <=> parts[p].release_status = "Released"

\* C2 witness: a part that was revised and then released is locked.
C2_Witness ==
    \E p \in DOMAIN parts :
        /\ IsLocked(p) /\ parts[p].release_status = "Released"
        /\ Len(Entries(p, "release")) >= 1
        /\ Len(Snapshots(p)) >= 1

\* C4: a successful ReviseRevision on a part, Prototype or Released beforehand,
\* leaves it unlocked with status Prototype and appends exactly one snapshot
\* row, for that part and labelled with the revision it had before the call;
\* the earlier snapshot rows are unchanged.
C4_ReviseUnlocksAndSnapshots ==
    [][\A id \in DOMAIN parts, u \in Users :
          ReviseRevision(id, "", u) /\ resp'.status = 200 =>
              /\ parts'[id].is_locked = 0
              /\ parts'[id].release_status = "Prototype"
              /\ Len(part_revisions') = Len(part_revisions) + 1
              /\ SubSeq(part_revisions', 1, Len(part_revisions)) = part_revisions
              /\ part_revisions'[Len(part_revisions')].part_id = id
              /\ part_revisions'[Len(part_revisions')].revision_label
                     = parts[id].part_revision]_vars

\* C4 witness: the last request revised a part that was Released and locked.
C4_Witness ==
    /\ resp.op = "revise" /\ resp.status = 200
    /\ part_revisions # << >>
    /\ LET last == part_revisions[Len(part_revisions)]
       IN  /\ last.part_id = resp.id
           /\ last.snapshot_json.is_locked = 1
           /\ last.snapshot_json.release_status = "Released"
           /\ parts[resp.id].is_locked = 0

\* C5: for every non-empty revision label, ReviseRevision sets and returns the
\* label with its final character advanced by one code point and all
\* preceding characters kept ("A1" -> "A2").
IncrementLast(label) == [label EXCEPT ![Len(label)] = @ + 1]
C5_ReviseKeepsPrefix ==
    [][\A id \in DOMAIN parts, u \in Users :
          ReviseRevision(id, "", u) /\ parts[id].part_revision # << >> =>
              /\ parts'[id].part_revision = IncrementLast(parts[id].part_revision)
              /\ resp'.ret = IncrementLast(parts[id].part_revision)]_vars

\* C6: a part created with a single-letter revision L and revised k times has
\* revision L+k and exactly k snapshot rows, labelled L, L+1, ..., L+k-1 in
\* creation order.
C6_RevisionHistory ==
    \A p \in DOMAIN parts :
        LET snaps == Snapshots(p)
            k     == Len(Entries(p, "bump_revision"))
        IN  /\ Len(snaps) = k
            /\ (k >= 1 /\ Len(snaps[1].revision_label) = 1) =>
                   LET L == snaps[1].revision_label[1]
                   IN  /\ \A i \in 1..k : snaps[i].revision_label = <<L + i - 1>>
                       /\ parts[p].part_revision = <<L + k>>

\* C6 witness: created with "A" and revised twice: revision "C", snapshots
\* "A" and "B".
C6_Witness ==
    \E p \in DOMAIN parts :
        /\ parts[p].part_revision = <<67>>
        /\ Len(Snapshots(p)) = 2
        /\ Snapshots(p)[1].revision_label = <<65>>
        /\ Snapshots(p)[2].revision_label = <<66>>

-----------------------------------------------------------------------------
(* SpecLock: Release, Unrelease and Update on parts, with the clock running *)

MaxLockOps == 4      \* audit entries written in SpecLock

LockCreate ==
    /\ \E raw \in {<<97, 49>>}, name \in PartNames, u \in Engineers :
          Create(raw, name, <<65>>, u)
    /\ Budget(MaxLockOps) /\ MayCreate
LockUpdate ==
    /\ \E id \in DOMAIN parts, d \in PartUpdates, u \in Engineers : Update(id, d, u)
    /\ Budget(MaxLockOps)
LockRelease ==
    /\ \E id \in DOMAIN parts, u \in Admins : Release(id, u)
    /\ Budget(MaxLockOps)
LockUnrelease ==
    /\ \E id \in DOMAIN parts, u \in Admins : Unrelease(id, u)
    /\ Budget(MaxLockOps)

NextLock ==
    LockCreate \/ LockUpdate \/ LockRelease \/ LockUnrelease \/ TickSecond

SpecLock == Init /\ [][NextLock]_vars

\* The action of the last audit entry written for part p.
LastAction(p) ==
    LET es == SelectSeq(audit_log,
                        LAMBDA e : e.entity_type = "part" /\ e.entity_id = p)
    IN  es[Len(es)].action

\* C3: after Release on a part, an Update on it returns LockedState (423),
\* leaves part_name, description, part_level and updated_at unchanged and
\* appends no audit entry; after a following Unrelease the same Update
\* succeeds and sets those fields.
C3_UpdateAfterReleaseAndUnrelease ==
    [][\A id \in DOMAIN parts, d \in PartUpdates, u \in Users :
          Update(id, d, u) =>
              /\ LastAction(id) = "release" =>
                     /\ resp'.status = 423
                     /\ parts'[id].part_name   = parts[id].part_name
                     /\ parts'[id].description = parts[id].description
                     /\ parts'[id].part_level  = parts[id].part_level
                     /\ parts'[id].updated_at  = parts[id].updated_at
                     /\ audit_log' = audit_log
              /\ LastAction(id) = "unrelease" =>
                     /\ resp'.status = 200
                     /\ parts'[id].part_name   = d.part_name
                     /\ parts'[id].description = d.description
                     /\ parts'[id].part_level  = d.part_level
                     /\ parts'[id].updated_at  = now
                     /\ Len(audit_log') = Len(audit_log) + 1]_vars

\* C3 witness: a part was released, then unreleased, and an Update carrying
\* new field values succeeded a second later.
C3_Witness ==
    /\ resp.op = "update" /\ resp.status = 200
    /\ resp.id \in DOMAIN parts
    /\ Len(Entries(resp.id, "release")) = 1
    /\ Len(Entries(resp.id, "unrelease")) = 1
    /\ LastAction(resp.id) = "update_part"
    /\ parts[resp.id].part_name = "plate"
    /\ parts[resp.id].updated_at > parts[resp.id].created_at

-----------------------------------------------------------------------------
(* SpecCreate: Create requests only *)

CreateOnly ==
    /\ \E raw \in RawPartNumbers, name \in PartNames, rev \in {<<65>>},
          u \in Users : Create(raw, name, rev, u)
    /\ Budget(MaxAudit) /\ MayCreate

NextCreate == CreateOnly \/ TickSecond

SpecCreate == Init /\ [][NextCreate]_vars

lower_char(c) == IF c \in 65..90 THEN c + 32 ELSE c
EqualIgnoringCase(a, b) ==
    /\ Len(a) = Len(b)
    /\ \A i \in 1..Len(a) : lower_char(a[i]) = lower_char(b[i])
\* a, without the whitespace around it, equals b ignoring case
SameNumber(a, b) ==
    \E i \in 1..Len(a), j \in 1..Len(a) :
        /\ \A k \in 1..Len(a) : (k < i \/ k > j) => IsSpace(a[k])
        /\ i <= j
        /\ EqualIgnoringCase(SubSeq(a, i, j), b)

\* C7: no two parts have part_numbers that are equal ignoring case, and a
\* Create whose part_number equals that of an existing part, ignoring case
\* and surrounding whitespace, returns Conflict (409), creates no part and
\* appends no audit entry.
C7_PartNumberUnique ==
    /\ [](\A p \in DOMAIN parts, q \in DOMAIN parts :
              p # q => ~EqualIgnoringCase(parts[p].part_number,
                                          parts[q].part_number))
    /\ [][\A raw \in RawPartNumbers, name \in PartNames, u \in Users :
             ( /\ Create(raw, name, <<65>>, u)
               /\ \E p \in DOMAIN parts : SameNumber(raw, parts[p].part_number) )
             => /\ resp'.status = 409
                /\ parts' = parts
                /\ audit_log' = audit_log]_vars

\* C7 witness: two parts exist and the last Create, of a number that differs
\* from an existing one in case and spacing only, was answered 409.
C7_Witness ==
    /\ Cardinality(DOMAIN parts) = 2
    /\ resp.op = "create" /\ resp.status = 409
    /\ \E p \in DOMAIN parts :
          /\ resp.arg # parts[p].part_number
          /\ SameNumber(resp.arg, parts[p].part_number)

-----------------------------------------------------------------------------
(* SpecCheckoutRace: Checkout requests whose store statements interleave.  *)
(* Database.checkout_part runs its SELECT and its UPDATE as two statements *)
(* on one connection; sqlite3 opens the write transaction at the UPDATE,   *)
(* so another connection's statements may run between the two, and         *)
(* _log_audit and the router's get_part calls use connections of their own.*)

\* router checkout, line 102-104: the request arrives and the part is looked up
CoBegin(w, part_id, station, user) ==
    /\ pc[w] = "idle"
    /\ call' = [call EXCEPT ![w] = [op |-> "checkout", part_id |-> part_id,
                                    station |-> station, user |-> user]]
    /\ IF get_part(parts, part_id) = None
       THEN /\ pc' = [pc EXCEPT ![w] = "done"]
            /\ result' = [result EXCEPT ![w] = [status |-> 404, ret |-> None]]
       ELSE /\ pc' = [pc EXCEPT ![w] = "select"]
            /\ UNCHANGED result
    /\ UNCHANGED <<partVars, audit_log, now, resp, graphVars, docVars, seen>>

\* checkout_part, line 313-315: SELECT checked_out_by, and the test on it
CoSelect(w) ==
    /\ pc[w] = "select"
    /\ seen' = [seen EXCEPT ![w] = checkout_row(parts, call[w].part_id)]
    /\ IF checkout_free(checkout_row(parts, call[w].part_id))
       THEN /\ pc' = [pc EXCEPT ![w] = "update"]
            /\ UNCHANGED result
       ELSE /\ pc' = [pc EXCEPT ![w] = "done"]
            /\ result' = [result EXCEPT ![w] = [status |-> 409, ret |-> None]]
    /\ UNCHANGED <<partVars, audit_log, now, resp, graphVars, docVars, call>>

\* checkout_part, line 316-320: UPDATE and commit
CoUpdate(w) ==
    /\ pc[w] = "update"
    /\ parts' = checkout_write(parts, call[w].part_id, call[w].user,
                               call[w].station)
    /\ pc' = [pc EXCEPT ![w] = "audit"]
    /\ UNCHANGED <<part_revisions, audit_log, now, resp, graphVars, docVars, call, seen,
                   result>>

\* checkout_part, line 321: the audit entry
CoAudit(w) ==
    /\ pc[w] = "audit"
    /\ audit_log' = _log_audit(audit_log, call[w].user, "checkout", "part",
                               call[w].part_id, [station |-> call[w].station])
    /\ pc' = [pc EXCEPT ![w] = "respond"]
    /\ UNCHANGED <<partVars, now, resp, graphVars, docVars, call, seen, result>>

\* router checkout, line 106-108: ok is True, the part is read and returned
CoRespond(w) ==
    /\ pc[w] = "respond"
    /\ result' = [result EXCEPT
                    ![w] = [status |-> 200,
                            ret |-> get_part(parts, call[w].part_id)]]
    /\ pc' = [pc EXCEPT ![w] = "done"]
    /\ UNCHANGED <<partVars, audit_log, now, resp, graphVars, docVars, call, seen>>

RaceCreate ==
    /\ \E raw \in {<<97, 49>>, <<98>>}, u \in Engineers :
          Create(raw, "bracket", <<65>>, u)
    /\ MayCreate
RaceBegin    == \E w \in Workers, id \in DOMAIN parts, u \in Users :
                    CoBegin(w, id, "ws7", u)
RaceSelect   == \E w \in Workers : CoSelect(w)
RaceUpdate   == \E w \in Workers : CoUpdate(w)
RaceAudit    == \E w \in Workers : CoAudit(w)
RaceRespond  == \E w \in Workers : CoRespond(w)

NextCheckoutRace ==
    \/ RaceCreate
    \/ RaceBegin
    \/ RaceSelect
    \/ RaceUpdate
    \/ RaceAudit
    \/ RaceRespond

SpecCheckoutRace == Init /\ [][NextCheckoutRace]_vars

\* C1: when N >= 2 Checkout calls on a part that had no holder have all
\* returned, exactly one of them succeeded (200), every other one returned
\* Conflict (409), and the holder is the actor of the successful call.
C1_ExactlyOneCheckoutWins ==
    \A p \in DOMAIN parts :
        (\A w \in Workers : pc[w] = "done" /\ call[w].part_id = p) =>
            \E w \in Workers :
                /\ result[w].status = 200
                /\ parts[p].checked_out_by = call[w].user
                /\ \A v \in Workers \ {w} : result[v].status = 409

-----------------------------------------------------------------------------
(* DocumentStore: configuration, names and paths *)

MAX_FILE_VERSIONS == 3

CAD_EXTENSIONS == {".prt", ".asm", ".drw", ".stl", ".3mf", ".obj", ".step",
                   ".stp", ".sldprt", ".sldasm", ".ipt", ".iam"}

\* An uploaded file name, as pathlib splits it: Path(filename).stem and
\* Path(filename).suffix.  filename == stem \o suffix.
FileNames == { [stem |-> "a", suffix |-> ".prt"],
               [stem |-> "notes", suffix |-> ".txt"] }
filename_of(f) == f.stem \o f.suffix

\* str.lower() and lstrip(".").upper() on the suffixes of FileNames
suffix_lower(suffix) ==
    CASE suffix = ".prt" -> ".prt"
      [] suffix = ".txt" -> ".txt"
      [] OTHER -> suffix
suffix_ext_upper(suffix) ==
    CASE suffix = ".prt" -> "PRT"
      [] suffix = ".txt" -> "TXT"
      [] OTHER -> ""
suffix_ext_lower(suffix) ==
    CASE suffix = ".prt" -> "prt"
      [] suffix = ".txt" -> "txt"
      [] OTHER -> ""

is_cad_file(f) == suffix_lower(f.suffix) \in CAD_EXTENSIONS

\* A path under FILES_ROOT is <<folder, file name>>.
_ext_folder(f) ==
    LET ext == suffix_ext_upper(f.suffix)
    IN  CASE ext \in {"PRT", "ASM", "DRW"} -> "NX"
          [] ext \in {"SLDPRT", "SLDASM"}  -> "SOLIDWORKS"
          [] ext \in {"IPT", "IAM"}        -> "INVENTOR"
          [] ext \in {"STEP", "STP"}       -> "STEP"
          [] ext \in {"STL", "3MF", "OBJ"} -> ext
          [] OTHER -> IF ext # "" THEN ext ELSE "OTHER"

\* strftime on a clock that stays within January 1st
Digit == <<"0", "1", "2", "3", "4", "5", "6", "7", "8", "9">>
TwoDigits(n) == Digit[(n \div 10) + 1] \o Digit[(n % 10) + 1]
strf_md(t) == "0101"
strf_HM(t) == TwoDigits((t \div 3600) % 24) \o TwoDigits((t \div 60) % 60)
strf_S(t)  == TwoDigits(t % 60)

\* "_%m%d_%H%M"
_version_label(t) == "_" \o strf_md(t) \o "_" \o strf_HM(t)
\* "%m%d_%H%M%S"
temp_label(t) == strf_md(t) \o "_" \o strf_HM(t) \o strf_S(t)

\* Mutant of exists: every path is taken to be on disk.
exists_always(path) == TRUE

exists(path) == path \in DOMAIN disk
WriteFile(d, path, bytes) ==
    [q \in DOMAIN d \cup {path} |-> IF q = path THEN bytes ELSE d[q]]
RemoveFiles(d, paths) == [q \in DOMAIN d \ paths |-> d[q]]

\* Mutant of move: the source is removed and nothing is written.
move_loses_source(d, src, dst) == RemoveFiles(d, {src})

\* shutil.move(src, dst): os.rename, which replaces a file at dst
move(d, src, dst) == WriteFile(RemoveFiles(d, {src}), dst, d[src])

-----------------------------------------------------------------------------
(* DocumentStore: the store's methods *)

\* list_documents(part_id) is ordered by uploaded_at DESC; save_upload takes
\* the first row with the file name.  Rows of one second come in any order.
first_existing(D, part_id, filename) ==
    LET match == {d \in DOMAIN D : D[d].part_id = part_id
                                   /\ D[d].filename = filename}
    IN  {d \in match : \A e \in match : D[e].uploaded_at <= D[d].uploaded_at}

create_document(D, filename, stored_path, file_type, description, by, part_id) ==
    LET id == NextId(D)
        row == [part_id |-> part_id, filename |-> filename,
                stored_path |-> stored_path, file_type |-> file_type,
                description |-> description, uploaded_by |-> by,
                uploaded_at |-> CURRENT_TIMESTAMP]
    IN  [i \in DOMAIN D \cup {id} |-> IF i = id THEN row ELSE D[i]]

\* create_document, line 523: SELECT ... WHERE stored_path=? and fetchone()
rows_at_path(D, stored_path) == {d \in DOMAIN D : D[d].stored_path = stored_path}

get_document(D, doc_id) == IF doc_id \in DOMAIN D THEN {D[doc_id]} ELSE None

add_file_version(FV, doc_id, version_label, backup_path, file_size, saved_by) ==
    LET id == NextId(FV)
        row == [document_id |-> doc_id, version_label |-> version_label,
                backup_path |-> backup_path, file_size |-> file_size,
                saved_by |-> saved_by, saved_at |-> CURRENT_TIMESTAMP]
    IN  [i \in DOMAIN FV \cup {id} |-> IF i = id THEN row ELSE FV[i]]

\* Mutant of get_old_versions: the rows are taken in ascending order of
\* saved_at, so the newest rows are the ones returned.
get_old_versions_ascending(FV, doc_id, keep) ==
    LET mine == {v \in DOMAIN FV : FV[v].document_id = doc_id}
        n    == IF Cardinality(mine) > keep THEN Cardinality(mine) - keep ELSE 0
    IN  {old \in SUBSET mine :
            /\ Cardinality(old) = n
            /\ \A o \in old, k \in mine \ old : FV[o].saved_at >= FV[k].saved_at}

\* Mutant of get_old_versions: rows[keep + 1:], one row too many is kept.
get_old_versions_keeps_one_more(FV, doc_id, keep) ==
    LET mine == {v \in DOMAIN FV : FV[v].document_id = doc_id}
        n    == IF Cardinality(mine) > keep + 1
                THEN Cardinality(mine) - (keep + 1) ELSE 0
    IN  {old \in SUBSET mine :
            /\ Cardinality(old) = n
            /\ \A o \in old, k \in mine \ old : FV[o].saved_at <= FV[k].saved_at}

\* get_old_versions: the rows after the first `keep` in ORDER BY saved_at DESC.
\* Rows of one second come in any order: the set of possible answers.
get_old_versions(FV, doc_id, keep) ==
    LET mine == {v \in DOMAIN FV : FV[v].document_id = doc_id}
        n    == IF Cardinality(mine) > keep THEN Cardinality(mine) - keep ELSE 0
    IN  {old \in SUBSET mine :
            /\ Cardinality(old) = n
            /\ \A o \in old, k \in mine \ old : FV[o].saved_at <= FV[k].saved_at}

delete_file_version(FV, ids) == [v \in DOMAIN FV \ ids |-> FV[v]]

get_file_version(FV, version_id) ==
    IF version_id \in DOMAIN FV THEN {FV[version_id]} ELSE None

-----------------------------------------------------------------------------
(* DocumentStore: the request handlers *)

FilePath(folder, stem, suffix) == [folder |-> folder, stem |-> stem,
                                   suffix |-> suffix]
path_name(path) == path.stem \o path.suffix

\* save_upload, line 60-83: the backup of the current god file, the new
\* FileVersion row and the rotation.  The possible outcomes, one for each
\* answer get_old_versions may give.
backup_and_rotate(existing, god_path, user_id) ==
    LET label       == _version_label(now)
        backup_path == FilePath(god_path.folder, god_path.stem \o label,
                                god_path.suffix)
        disk1       == WriteFile(disk, backup_path, disk[god_path])
        FV1         == add_file_version(file_versions, existing, label,
                                        backup_path, Len(disk1[backup_path]),
                                        user_id)
    IN  { [disk |-> RemoveFiles(disk1, {FV1[o].backup_path : o \in old}),
           file_versions |-> delete_file_version(FV1, old),
           evicted |-> {FV1[o] : o \in old}] :
          old \in get_old_versions(FV1, existing, MAX_FILE_VERSIONS) }

\* POST /api/documents, with files.save_upload
SaveUpload(file_data, f, part_id, description, user) ==
    LET filename  == filename_of(f)
        file_type == suffix_ext_lower(f.suffix)
        versioned == is_cad_file(f) /\ part_id # NULL
        god_path  == FilePath(_ext_folder(f), f.stem, f.suffix)
        found     == IF versioned
                     THEN first_existing(documents, part_id, filename) ELSE {}
        arg       == [filename |-> filename, part_id |-> part_id,
                      file_data |-> file_data]
    IN  IF file_data = ""
        THEN /\ resp' = Response("upload", NULL, user, 400, arg, None)
             /\ UNCHANGED <<documents, file_versions, disk, audit_log>>
             /\ UNCHANGED <<partVars, graphVars, now, reqVars>>
        ELSE
        \E existing \in IF found = {} THEN {NULL} ELSE found :
        \E s1 \in IF existing # NULL /\ exists(god_path)
                  THEN backup_and_rotate(existing, god_path, user)
                  ELSE {[disk |-> disk, file_versions |-> file_versions,
                         evicted |-> {}]} :
            /\ disk' = WriteFile(s1.disk, god_path, file_data)
            /\ file_versions' = s1.file_versions
            /\ IF found # {}
               THEN \E again \in found :
                        /\ resp' = Response("upload", again, user, 201, arg,
                                            {documents[again]})
                        /\ UNCHANGED <<documents, audit_log>>
               ELSE LET D2 == create_document(documents, filename, god_path,
                                              file_type, description, user,
                                              part_id)
                    IN  \E doc \in rows_at_path(D2, god_path) :
                            /\ documents' = D2
                            /\ audit_log' =
                                   _log_audit(audit_log, user, "upload_document",
                                              "document", doc,
                                              [filename |-> filename,
                                               part_id |-> part_id])
                            /\ resp' = Response("upload", doc, user, 201, arg,
                                                {D2[doc]})
            /\ UNCHANGED <<partVars, graphVars, now, reqVars>>

\* POST /api/documents/{doc_id}/restore/{version_id}, with files.restore_version
RestoreVersion(doc_id, version_id, user) ==
    LET doc     == get_document(documents, doc_id)
        version == get_file_version(file_versions, version_id)
        arg     == [version_id |-> version_id]
    IN  /\ IF doc = None \/ version = None
           THEN /\ resp' = Response("restore", doc_id, user, 404, arg, None)
                /\ UNCHANGED disk
           ELSE LET god_path    == (CHOOSE d \in doc : TRUE).stored_path
                    backup_path == (CHOOSE v \in version : TRUE).backup_path
                    temp_dest   == FilePath("Temp",
                                            god_path.stem \o "_" \o temp_label(now),
                                            god_path.suffix)
                    moved       == IF exists(god_path)
                                   THEN move(disk, god_path, temp_dest)
                                   ELSE disk
                IN  IF ~exists(backup_path)
                    THEN /\ resp' = Response("restore", doc_id, user, 404, arg, None)
                         /\ UNCHANGED disk
                    ELSE IF backup_path \notin DOMAIN moved
                    \* shutil.copy2 raises FileNotFoundError
                    THEN /\ resp' = Response("restore", doc_id, user, 404, arg, None)
                         /\ disk' = moved
                    ELSE /\ resp' = Response("restore", doc_id, user, 200, arg, None)
                         /\ disk' = WriteFile(moved, god_path, moved[backup_path])
        /\ UNCHANGED <<partVars, graphVars, audit_log, now, documents, file_versions, reqVars>>

\* The wall clock reaches the next minute.
TickMinute ==
    /\ now' = ((now \div 60) + 1) * 60
    /\ UNCHANGED <<parts, part_revisions, audit_log, resp, graphVars, docVars, reqVars>>

-----------------------------------------------------------------------------
(* SpecRotate: uploads, one request at a time, minutes passing *)

RotateCreate ==
    /\ \E u \in Engineers : Create(<<97, 49>>, "bracket", <<65>>, u)
    /\ MayCreate
RotateUpload ==
    /\ \E f \in FileNames, p \in DOMAIN parts, u \in Engineers :
          SaveUpload("x", f, p, "", u)
    /\ Cardinality(DOMAIN documents') <= MaxDocs
    /\ \A v \in DOMAIN file_versions' : v <= MaxVersions
RotateMinute == TickMinute /\ now' \div 60 <= MaxMinute

NextRotate == RotateCreate \/ RotateUpload \/ RotateMinute

SpecRotate == Init /\ [][NextRotate]_vars

-----------------------------------------------------------------------------
(* Retention of file versions *)

Min(a, b) == IF a <= b THEN a ELSE b
VersionsOf(FV, d) == {v \in DOMAIN FV : FV[v].document_id = d}
MinuteOf(t) == t \div 60

\* The upload of this step went through save_upload's versioning block for
\* document d: d was there before, for a part, with a CAD name, and its god
\* file was on disk.
Versioned(d) ==
    /\ d \in DOMAIN documents
    /\ documents[d].part_id # NULL
    /\ is_cad_file(documents[d].stored_path)
    /\ documents[d].stored_path \in DOMAIN disk

\* The backup that step made: its row id, save time and path.
NewVersion(d) ==
    LET god == documents[d].stored_path
    IN  [id |-> NextId(file_versions), saved_at |-> now,
         backup_path |-> FilePath(god.folder, god.stem \o _version_label(now),
                                  god.suffix)]

\* C8: after every completed SaveUpload no document has more than
\* MAX_FILE_VERSIONS FileVersion rows, and for the document uploaded to, of
\* its former versions and the one just saved, the retained ones are the
\* newest MAX_FILE_VERSIONS by save time: each version is either retained
\* unchanged, or its row and its backup file are both gone and it was saved
\* no later than any retained version.
C8_RetentionKeepsNewest ==
    [][RotateUpload /\ resp'.status = 201 =>
        /\ \A d \in DOMAIN documents' :
               Cardinality(VersionsOf(file_versions', d)) <= MAX_FILE_VERSIONS
        /\ LET arg   == resp'.arg
               found == {d \in first_existing(documents, arg.part_id,
                                              arg.filename) : Versioned(d)}
           IN  IF found = {}
               THEN file_versions' = file_versions
               ELSE \E d \in found :
                    LET new      == NewVersion(d)
                        old      == VersionsOf(file_versions, d)
                        retained == VersionsOf(file_versions', d)
                        saved(v) == IF v = new.id THEN new.saved_at
                                    ELSE file_versions[v].saved_at
                        backup(v) == IF v = new.id THEN new.backup_path
                                     ELSE file_versions[v].backup_path
                    IN  /\ retained \subseteq old \cup {new.id}
                        /\ Cardinality(retained) =
                               Min(MAX_FILE_VERSIONS, Cardinality(old) + 1)
                        /\ \A v \in retained :
                               /\ file_versions'[v].saved_at = saved(v)
                               /\ file_versions'[v].backup_path = backup(v)
                        /\ \A e \in (old \cup {new.id}) \ retained :
                               /\ e \notin DOMAIN file_versions'
                               /\ backup(e) \notin DOMAIN disk'
                               /\ \A k \in retained : saved(e) <= saved(k)
    ]_vars

\* An upload has evicted the oldest version: its row is gone and the three
\* versions saved after it, in later minutes, are retained.
C8_Witness ==
    /\ resp.op = "upload" /\ resp.status = 201
    /\ resp.arg.part_id # NULL
    /\ resp.id \in DOMAIN documents
    /\ VersionsOf(file_versions, resp.id) = {2, 3, 4}
    /\ MinuteOf(file_versions[2].saved_at) < MinuteOf(file_versions[3].saved_at)
    /\ MinuteOf(file_versions[3].saved_at) < MinuteOf(file_versions[4].saved_at)
    /\ \A v \in {2, 3, 4} : file_versions[v].backup_path \in DOMAIN disk

\* The backup files of document d on a disk: the files next to its god file
\* with its suffix.
BackupFiles(dk, d) ==
    LET god == documents[d].stored_path
    IN  {q \in DOMAIN dk : q.folder = god.folder /\ q.suffix = god.suffix
                           /\ q # god}
BackupPaths(FV, d) == {FV[v].backup_path : v \in VersionsOf(FV, d)}

\* The documents save_upload versions: a CAD file name uploaded to a part.
CadDocuments ==
    {d \in DOMAIN documents : /\ documents[d].part_id # NULL
                              /\ is_cad_file(documents[d].stored_path)}

\* The minutes of the uploads to d that the tables record: the first upload
\* made the Document row, each later one a FileVersion row.
UploadMinutes(d) ==
    {MinuteOf(documents[d].uploaded_at)}
        \cup {MinuteOf(file_versions[v].saved_at) : v \in VersionsOf(file_versions, d)}

\* The file name of d has been uploaded to its part exactly 4 times, each
\* time in another minute.  d is the only versioned document, so the fourth
\* upload made the third FileVersion row ever inserted.
FourUploads(d) ==
    /\ d \in CadDocuments
    /\ CadDocuments = {d}
    /\ d \in first_existing(documents, documents[d].part_id, documents[d].filename)
    /\ NextId(file_versions) = 4
    /\ Cardinality(UploadMinutes(d)) = 1 + Cardinality(VersionsOf(file_versions, d))

\* C9 as stated: after 4 uploads of one CAD file name to one part, each in
\* another minute, with MAX_FILE_VERSIONS = 3, there are exactly 3 FileVersion
\* rows and 3 backup files, and the first backup is absent from the disk and
\* from the metadata.
C9_FourUploadsEvictFirst ==
    \A d \in DOMAIN documents :
        FourUploads(d) =>
            /\ Cardinality(VersionsOf(file_versions, d)) = 3
            /\ Cardinality(BackupFiles(disk, d)) = 3
            /\ 1 \notin VersionsOf(file_versions, d)
            /\ BackupFiles(disk, d) = BackupPaths(file_versions, d)

\* C9, amended: after those 4 uploads there are exactly 3 FileVersion rows
\* and 3 backup files and the first backup is still there, on disk and in the
\* metadata (the first upload backs nothing up); a fifth upload in yet
\* another minute leaves exactly 3 rows and 3 backup files with the first
\* backup absent from both.
C9_FifthUploadEvictsFirst ==
    /\ [](\A d \in DOMAIN documents :
            FourUploads(d) =>
                /\ VersionsOf(file_versions, d) = {1, 2, 3}
                /\ Cardinality(BackupFiles(disk, d)) = 3
                /\ BackupFiles(disk, d) = BackupPaths(file_versions, d))
    /\ [][\A d \in DOMAIN documents :
            /\ FourUploads(d)
            /\ MinuteOf(now) \notin UploadMinutes(d)
            /\ RotateUpload
            /\ resp'.arg.part_id = documents[d].part_id
            /\ resp'.arg.filename = documents[d].filename
            => /\ VersionsOf(file_versions', d) = {2, 3, 4}
               /\ Cardinality(BackupFiles(disk', d)) = 3
               /\ BackupFiles(disk', d) = BackupPaths(file_versions', d)
               /\ file_versions[1].backup_path \notin DOMAIN disk'
       ]_vars

\* The fourth upload has just completed and the first backup is on disk.
C9_Witness ==
    /\ resp.op = "upload" /\ resp.status = 201
    /\ resp.id \in DOMAIN documents
    /\ resp.arg.part_id # NULL
    /\ FourUploads(resp.id)
    /\ file_versions[1].backup_path \in DOMAIN disk

-----------------------------------------------------------------------------
(* SpecRestore: uploads of one CAD file and restores of its versions *)

Contents == {"x", "yy"}

RestoreCreate ==
    /\ \E u \in Engineers : Create(<<97, 49>>, "bracket", <<65>>, u)
    /\ MayCreate
RestoreUpload ==
    /\ \E file_data \in Contents, p \in DOMAIN parts, u \in Engineers :
          SaveUpload(file_data, [stem |-> "a", suffix |-> ".prt"], p, "", u)
    /\ \A v \in DOMAIN file_versions' : v <= MaxRestoreVersions
RestoreRestore ==
    \E d \in 1..MaxDocs, v \in 1..MaxRestoreVersions, u \in Engineers :
        RestoreVersion(d, v, u)
RestoreMinute == TickMinute /\ now' \div 60 <= MaxRestoreMinute

NextRestore == RestoreCreate \/ RestoreUpload \/ RestoreRestore \/ RestoreMinute

SpecRestore == Init /\ [][NextRestore]_vars

\* C10: a RestoreVersion(doc, v) that succeeds on a document whose canonical
\* file exists leaves in the canonical file the bytes of v's backup file, and
\* leaves the bytes the canonical file held before the call in a file of the
\* Temp folder whose name is not the canonical file's name.
C10_RestoreKeepsDisplaced ==
    [][\A d \in DOMAIN documents, v \in DOMAIN file_versions, u \in Users :
        LET god    == documents[d].stored_path
            backup == file_versions[v].backup_path
        IN  /\ RestoreVersion(d, v, u)
            /\ resp'.status = 200
            /\ god \in DOMAIN disk
            => /\ god \in DOMAIN disk'
               /\ disk'[god] = disk[backup]
               /\ \E q \in DOMAIN disk' :
                      /\ q.folder = "Temp"
                      /\ path_name(q) # path_name(god)
                      /\ disk'[q] = disk[god]
    ]_vars

\* A restore has succeeded, replacing the canonical bytes by other bytes; the
\* displaced bytes are in the Temp folder.
C10_Witness ==
    /\ resp.op = "restore" /\ resp.status = 200
    /\ resp.id \in DOMAIN documents
    /\ \E q \in DOMAIN disk :
           /\ q.folder = "Temp"
           /\ disk[q] # disk[documents[resp.id].stored_path]

-----------------------------------------------------------------------------
(* SpecNotFound: restores of known and unknown documents and versions, with *)
(* backups of one minute sharing a backup file                             *)

NotFoundCreate ==
    /\ \E u \in Engineers : Create(<<97, 49>>, "bracket", <<65>>, u)
    /\ MayCreate
NotFoundUpload ==
    /\ \E p \in DOMAIN parts, u \in Engineers :
          SaveUpload("x", [stem |-> "a", suffix |-> ".prt"], p, "", u)
    /\ \A v \in DOMAIN file_versions' : v <= MaxNotFoundVersions
NotFoundRestore ==
    \E d \in DOMAIN documents \cup {NextId(documents)},
       v \in DOMAIN file_versions \cup {NextId(file_versions)},
       u \in Engineers :
        RestoreVersion(d, v, u)
NotFoundMinute == TickMinute /\ now' \div 60 <= MaxNotFoundMinute

NextNotFound ==
    NotFoundCreate \/ NotFoundUpload \/ NotFoundRestore \/ NotFoundMinute

SpecNotFound == Init /\ [][NextNotFound]_vars

\* C11: RestoreVersion answers NotFound (404) when the document id is
\* unknown, when the version id is unknown, or when the version's backup file
\* is not on disk, and then the disk (canonical file and Temp folder) and all
\* tables are left as they were.
C11_RestoreNotFoundChangesNothing ==
    [][\A d \in DOMAIN documents \cup {NextId(documents)},
          v \in DOMAIN file_versions \cup {NextId(file_versions)},
          u \in Users :
        /\ RestoreVersion(d, v, u)
        /\ \/ d \notin DOMAIN documents
           \/ v \notin DOMAIN file_versions
           \/ file_versions[v].backup_path \notin DOMAIN disk
        => /\ resp'.status = 404
           /\ disk' = disk
           /\ documents' = documents
           /\ file_versions' = file_versions
           /\ parts' = parts /\ part_revisions' = part_revisions
           /\ audit_log' = audit_log
    ]_vars

\* A restore of a known version of a known document was answered NotFound:
\* the version's backup file is not on disk, and the canonical file is.
C11_Witness ==
    /\ resp.op = "restore" /\ resp.status = 404
    /\ resp.id \in DOMAIN documents
    /\ resp.arg.version_id \in DOMAIN file_versions
    /\ file_versions[resp.arg.version_id].backup_path \notin DOMAIN disk
    /\ documents[resp.id].stored_path \in DOMAIN disk

-----------------------------------------------------------------------------
(* RelationshipGraph: the store's methods *)

\* RelationshipCreate.qty_positive raises when v <= 0.  Quantities are whole
\* numbers here.
\* Mutant of qty_positive: zero is let through.
qty_positive_allows_zero(v) == ~(v < 0)

qty_positive(v) == ~(v <= 0)

\* Mutant of relationship_exists: the pair is looked up the wrong way round.
relationship_exists_reversed(R, parent_id, child_id) ==
    \E r \in DOMAIN R : /\ R[r].parent_part_id = child_id
                        /\ R[r].child_part_id = parent_id

relationship_exists(R, parent_id, child_id) ==
    \E r \in DOMAIN R : /\ R[r].parent_part_id = parent_id
                        /\ R[r].child_part_id = child_id

add_relationship(R, parent_id, child_id, quantity, rel_type, notes) ==
    LET id  == NextId(R)
        row == [parent_part_id |-> parent_id, child_part_id |-> child_id,
                quantity |-> quantity, relationship_type |-> rel_type,
                notes |-> notes, created_at |-> CURRENT_TIMESTAMP]
    IN  [i \in DOMAIN R \cup {id} |-> IF i = id THEN row ELSE R[i]]

\* add_relationship, line 424: SELECT ... WHERE parent_part_id=? AND
\* child_part_id=? and fetchone()
rows_of_pair(R, parent_id, child_id) ==
    {r \in DOMAIN R : /\ R[r].parent_part_id = parent_id
                      /\ R[r].child_part_id = child_id}

delete_relationship(R, rel_id) == [r \in DOMAIN R \ {rel_id} |-> R[r]]

-----------------------------------------------------------------------------
(* RelationshipGraph: the request handlers *)

\* POST /api/relationships
AddEdge(parent, child, quantity, rel_type, notes, user) ==
    LET arg == [parent |-> parent, child |-> child, quantity |-> quantity]
        R2  == add_relationship(part_relationships, parent, child, quantity,
                                rel_type, notes)
        fail(status) ==
            /\ resp' = Response("add_relationship", NULL, user, status, arg, None)
            /\ UNCHANGED <<part_relationships, audit_log>>
    IN  /\ IF ~qty_positive(quantity) THEN fail(422)
           ELSE IF parent = child THEN fail(400)
           ELSE IF get_part(parts, parent) = None THEN fail(404)
           ELSE IF get_part(parts, child) = None THEN fail(404)
           ELSE IF relationship_exists(part_relationships, parent, child)
           THEN fail(409)
           ELSE \E row \in rows_of_pair(R2, parent, child) :
                    /\ part_relationships' = R2
                    /\ audit_log' = _log_audit(audit_log, user,
                                               "add_relationship", "relationship",
                                               row, [parent |-> parent,
                                                     child |-> child])
                    /\ resp' = Response("add_relationship", row, user, 201, arg,
                                        {R2[row]})
        /\ UNCHANGED <<partVars, part_attributes, trav, now, docVars, reqVars>>

\* DELETE /api/relationships/{rel_id}
DeleteEdge(rel_id, user) ==
    /\ part_relationships' = delete_relationship(part_relationships, rel_id)
    /\ audit_log' = _log_audit(audit_log, user, "delete_relationship",
                               "relationship", rel_id, NoDetail)
    /\ resp' = Response("delete_relationship", rel_id, user, 200, NULL, None)
    /\ UNCHANGED <<partVars, part_attributes, trav, now, docVars, reqVars>>

-----------------------------------------------------------------------------
(* SpecGraph: parts and BOM edges, one request at a time *)

Quantities == {0, 1, 2}

\* The n-th part created is numbered with the n-th letter.
GraphCreate ==
    /\ \E u \in Engineers :
          Create(<<96 + NextId(parts)>>, "bracket", <<65>>, u)
    /\ Cardinality(DOMAIN parts') <= MaxGraphParts
    /\ Budget(MaxGraphAudit)
GraphAdd ==
    /\ \E parent \in 1..MaxGraphParts, child \in 1..MaxGraphParts,
          quantity \in Quantities, u \in Engineers :
          AddEdge(parent, child, quantity, "assembly", "", u)
    /\ \A r \in DOMAIN part_relationships' : r <= MaxEdges
    /\ Budget(MaxGraphAudit)
GraphDelete ==
    /\ \E r \in DOMAIN part_relationships, u \in Engineers : DeleteEdge(r, u)
    /\ Budget(MaxGraphAudit)

NextGraph == GraphCreate \/ GraphAdd \/ GraphDelete

SpecGraph == Init /\ [][NextGraph]_vars

C14_OneEdgePerPair ==
    /\ [](\A r1, r2 \in DOMAIN part_relationships :
             /\ part_relationships[r1].parent_part_id
                    = part_relationships[r2].parent_part_id
             /\ part_relationships[r1].child_part_id
                    = part_relationships[r2].child_part_id
             => r1 = r2)
    /\ [][(/\ resp'.op = "add_relationship"
           /\ AddEdge(resp'.arg.parent, resp'.arg.child, resp'.arg.quantity,
                      "assembly", "", resp'.user)
           /\ relationship_exists(part_relationships, resp'.arg.parent,
                                  resp'.arg.child)
           /\ resp'.arg.quantity > 0)
            => /\ resp'.status = 409
               /\ part_relationships' = part_relationships
               /\ audit_log' = audit_log
       ]_vars

\* A second AddEdge for a stored pair, with another quantity, was refused.
C14_Witness ==
    /\ resp.op = "add_relationship" /\ resp.status = 409
    /\ \E r \in DOMAIN part_relationships :
           /\ part_relationships[r].parent_part_id = resp.arg.parent
           /\ part_relationships[r].child_part_id = resp.arg.child
           /\ part_relationships[r].quantity # resp.arg.quantity

-----------------------------------------------------------------------------
(* RelationshipGraph: FlatBOM and Tree *)

MAX_BOM_DEPTH == 20     \* get_bom_flat: WHERE b.depth < 20
MAX_TREE_DEPTH == 20    \* get_tree: if depth < 20

\* CAST(id AS TEXT), for the ids below 100
int_text(n) == IF n < 10 THEN <<48 + n>> ELSE <<48 + (n \div 10), 48 + (n % 10)>>

\* Comparison of two TEXT values under the BINARY collation (memcmp, the
\* shorter of two equal prefixes first)
RECURSIVE text_less(_, _)
text_less(a, b) ==
    IF b = <<>> THEN FALSE
    ELSE IF a = <<>> THEN TRUE
    ELSE IF Head(a) # Head(b) THEN Head(a) < Head(b)
    ELSE text_less(Tail(a), Tail(b))

\* The elements of a set of numbers in ascending order
RECURSIVE Ascending(_)
Ascending(S) ==
    IF S = {} THEN <<>>
    ELSE LET m == CHOOSE x \in S : \A y \in S : x <= y
         IN  <<m>> \o Ascending(S \ {m})

\* Mutant of bom_recursive_select: WHERE b.depth <= 20.
bom_recursive_select_one_deeper(R, b) ==
    LET edges == Ascending({e \in DOMAIN R : R[e].parent_part_id = b.part_id})
    IN  IF b.depth <= MAX_BOM_DEPTH
        THEN [i \in 1..Len(edges) |->
                 [part_id |-> R[edges[i]].child_part_id,
                  depth   |-> b.depth + 1,
                  path    |-> b.path \o <<47>> \o int_text(R[edges[i]].child_part_id)]]
        ELSE <<>>

\* The recursive SELECT of the CTE for one row b of bom: a row for each edge
\* whose parent is b.part_id, when b.depth < 20.  The edges are scanned in
\* rowid order.
bom_recursive_select(R, b) ==
    LET edges == Ascending({e \in DOMAIN R : R[e].parent_part_id = b.part_id})
    IN  IF b.depth < MAX_BOM_DEPTH
        THEN [i \in 1..Len(edges) |->
                 [part_id |-> R[edges[i]].child_part_id,
                  depth   |-> b.depth + 1,
                  path    |-> b.path \o <<47>> \o int_text(R[edges[i]].child_part_id)]]
        ELSE <<>>

\* The initial SELECT of the CTE: SELECT ?, 0, CAST(? AS TEXT)
bom_initial_select(root) ==
    [queue |-> <<[part_id |-> root, depth |-> 0, path |-> int_text(root)]>>,
     rows  |-> <<>>]

\* One step of WITH RECURSIVE ... UNION ALL: the first row of the queue is
\* moved to the result and the rows the recursive SELECT gives for it are
\* added to the queue.
bom_step(R, st) ==
    LET b == Head(st.queue)
    IN  [queue |-> Tail(st.queue) \o bom_recursive_select(R, b),
         rows  |-> Append(st.rows, b)]

\* The CTE is run until the queue is empty.
RECURSIVE bom_run(_, _)
bom_run(R, st) == IF st.queue = <<>> THEN st.rows ELSE bom_run(R, bom_step(R, st))

\* The outer SELECT over the rows of bom: JOIN parts, LEFT JOIN
\* part_relationships pr_link ON pr_link.child_part_id = b.part_id, WHERE
\* b.depth > 0.  Each result row is kept with the position of its bom row
\* and its pr_link row; ORDER BY b.path lists a row before every row of a
\* greater path, rows of one path in any order.
bom_outer_select(R, P, rows) ==
    LET links(b) == {e \in DOMAIN R : R[e].child_part_id = b.part_id}
    IN  UNION { { [b |-> i, link |-> e, path |-> rows[i].path,
                   depth |-> rows[i].depth,
                   quantity |-> IF e = NULL THEN NULL ELSE R[e].quantity,
                   relationship_type |->
                       IF e = NULL THEN NullText ELSE R[e].relationship_type,
                   id |-> rows[i].part_id,
                   part_number |-> P[rows[i].part_id].part_number]
                 : e \in IF links(rows[i]) = {} THEN {NULL} ELSE links(rows[i]) }
              : i \in {j \in 1..Len(rows) : /\ rows[j].depth > 0
                                            /\ rows[j].part_id \in DOMAIN P} }

get_bom_flat(R, P, root_part_id) ==
    bom_outer_select(R, P, bom_run(R, bom_initial_select(root_part_id)))

\* The list get_bom_flat returns has row r1 before row r2.
listed_before(r1, r2) == text_less(r1.path, r2.path)

\* get_children: the child parts of part_id, JOIN parts, ORDER BY part_number
RECURSIVE by_part_number(_, _)
by_part_number(P, S) ==
    IF S = {} THEN <<>>
    ELSE LET m == CHOOSE x \in S :
                      \A y \in S \ {x} : text_less(P[x].part_number, P[y].part_number)
         IN  <<m>> \o by_part_number(P, S \ {m})
get_children(R, P, part_id) ==
    by_part_number(P, {R[e].child_part_id :
                          e \in {x \in DOMAIN R : /\ R[x].parent_part_id = part_id
                                                  /\ R[x].child_part_id \in DOMAIN P}})

\* get_tree(part_id, depth) as the interpreter runs it: a stack of calls.
\* The first call of the stack returns {} when the part is unknown, and
\* otherwise makes a node and calls get_tree(c, depth + 1) for each child, in
\* order, when depth < 20.
tree_initial_call(part_id) ==
    [queue |-> <<[part_id |-> part_id, depth |-> 0]>>, rows |-> <<>>]
tree_step(R, P, st) ==
    LET call_    == Head(st.queue)
        children == get_children(R, P, call_.part_id)
        calls    == IF call_.depth < MAX_TREE_DEPTH
                    THEN [i \in 1..Len(children) |->
                             [part_id |-> children[i], depth |-> call_.depth + 1]]
                    ELSE <<>>
    IN  IF get_part(P, call_.part_id) = None
        THEN [queue |-> Tail(st.queue), rows |-> st.rows]
        ELSE [queue |-> calls \o Tail(st.queue),
              rows  |-> Append(st.rows, [id |-> call_.part_id,
                                         depth |-> call_.depth])]

RECURSIVE tree_run(_, _, _)
tree_run(R, P, st) ==
    IF st.queue = <<>> THEN st.rows ELSE tree_run(R, P, tree_step(R, P, st))

\* The nodes of the dict get_tree returns; pos is the node's place in
\* pre-order.
tree_nodes(rows) ==
    {[pos |-> i, id |-> rows[i].id, depth |-> rows[i].depth] : i \in 1..Len(rows)}
get_tree(R, P, part_id) == tree_nodes(tree_run(R, P, tree_initial_call(part_id)))

\* GET /api/parts/{part_id}/bom
FlatBOM(root, user) ==
    /\ IF get_part(parts, root) = None
       THEN resp' = Response("bom", root, user, 404, NULL, None)
       ELSE resp' = Response("bom", root, user, 200, NULL,
                             get_bom_flat(part_relationships, parts, root))
    /\ UNCHANGED <<partVars, audit_log, now, graphVars, docVars, reqVars>>

\* GET /api/relationships/tree/{part_id}
Tree(root, user) ==
    /\ IF get_part(parts, root) = None
       THEN resp' = Response("tree", root, user, 404, NULL, None)
       ELSE resp' = Response("tree", root, user, 200, NULL,
                             get_tree(part_relationships, parts, root))
    /\ UNCHANGED <<partVars, audit_log, now, graphVars, docVars, reqVars>>

-----------------------------------------------------------------------------
(* SpecBom: BOM edges between existing parts, and FlatBOM queries *)

BomCreate ==
    /\ \E u \in Engineers :
          Create(<<96 + NextId(parts)>>, "bracket", <<65>>, u)
    /\ Cardinality(DOMAIN parts') <= MaxBomParts
BomAdd ==
    /\ \E parent \in DOMAIN parts, child \in DOMAIN parts, u \in Engineers :
          AddEdge(parent, child, NextId(part_relationships), "assembly", "", u)
    /\ \A r \in DOMAIN part_relationships' : r <= MaxBomEdges
BomQuery == \E root \in DOMAIN parts, u \in Engineers : FlatBOM(root, u)

NextBom == BomCreate \/ BomAdd \/ BomQuery

SpecBom == Init /\ [][NextBom]_vars

\* The edge set as a graph
ChildrenOf(S) ==
    {part_relationships[e].child_part_id :
        e \in {x \in DOMAIN part_relationships :
                  part_relationships[x].parent_part_id \in S}}
RECURSIVE ReachIn(_, _)
ReachIn(S, k) == IF k = 0 THEN S ELSE ChildrenOf(ReachIn(S, k - 1))
Descendants(root) ==
    UNION {ReachIn({root}, k) : k \in 1..Cardinality(DOMAIN part_relationships)}
Distance(root, p) ==
    CHOOSE k \in 1..Cardinality(DOMAIN part_relationships) :
        /\ p \in ReachIn({root}, k)
        /\ \A j \in 1..(k - 1) : p \notin ReachIn({root}, j)

\* Each part reachable from root is reached by exactly one path: no path
\* returns to root, and each descendant has one edge from root's subtree.
IsTreeFrom(root) ==
    /\ root \notin Descendants(root)
    /\ \A p \in Descendants(root) :
           Cardinality({e \in DOMAIN part_relationships :
                           /\ part_relationships[e].child_part_id = p
                           /\ part_relationships[e].parent_part_id
                                  \in Descendants(root) \cup {root}}) = 1

\* C12: when the parts reachable from root form a tree, FlatBOM(root) returns
\* exactly one row for each descendant and none for any other part, each
\* with depth equal to its distance from root, and each part after all its
\* ancestors; also when a descendant is the child of a part outside root's
\* subtree.
C12_FlatBomListsTreeOnce ==
    (resp.op = "bom" /\ resp.status = 200 /\ IsTreeFrom(resp.id)) =>
        /\ \A r \in resp.ret : r.id \in Descendants(resp.id)
        /\ \A p \in Descendants(resp.id) :
               /\ Cardinality({r \in resp.ret : r.id = p}) = 1
               /\ \A r \in resp.ret : r.id = p => r.depth = Distance(resp.id, p)
        /\ \A r1, r2 \in resp.ret :
               r2.id \in Descendants(r1.id) => listed_before(r1, r2)

-----------------------------------------------------------------------------
(* SpecTraverse: FlatBOM and Tree run step by step, on edge sets with cycles *)

\* A traversal is started for an existing part, no other request running.
TravBegin(op, root, user) ==
    /\ trav.op = "idle"
    /\ get_part(parts, root) # None
    /\ trav' = [op |-> op, root |-> root, user |-> user,
                st |-> IF op = "bom" THEN bom_initial_select(root)
                       ELSE tree_initial_call(root)]
    /\ UNCHANGED <<partVars, audit_log, now, resp, part_relationships,
                   part_attributes, docVars, reqVars>>

\* The CTE takes the next row of its queue; get_tree runs its next call.
TravStep ==
    /\ trav.op # "idle"
    /\ trav.st.queue # <<>>
    /\ trav' = [trav EXCEPT !.st =
                   IF trav.op = "bom" THEN bom_step(part_relationships, trav.st)
                   ELSE tree_step(part_relationships, parts, trav.st)]
    /\ UNCHANGED <<partVars, audit_log, now, resp, part_relationships,
                   part_attributes, docVars, reqVars>>

\* Nothing is left to visit: the result is returned.
TravEnd ==
    /\ trav.op # "idle"
    /\ trav.st.queue = <<>>
    /\ resp' = Response(trav.op, trav.root, trav.user, 200, NULL,
                        IF trav.op = "bom"
                        THEN bom_outer_select(part_relationships, parts,
                                              trav.st.rows)
                        ELSE tree_nodes(trav.st.rows))
    /\ trav' = [op |-> "idle"]
    /\ UNCHANGED <<partVars, audit_log, now, part_relationships,
                   part_attributes, docVars, reqVars>>

TravCreate ==
    /\ trav.op = "idle"
    /\ \E u \in Engineers :
          Create(<<96 + NextId(parts)>>, "bracket", <<65>>, u)
    /\ Cardinality(DOMAIN parts') <= MaxTravParts
\* Only the requests that add an edge are drawn here (rejections: SpecGraph).
TravAdd ==
    /\ trav.op = "idle"
    /\ \E parent \in DOMAIN parts, child \in DOMAIN parts, u \in Engineers :
          AddEdge(parent, child, 1, "assembly", "", u)
    /\ \A r \in DOMAIN part_relationships' : r <= MaxTravEdges
    /\ resp'.status = 201
TravQuery ==
    \E op \in {"bom", "tree"}, root \in DOMAIN parts, u \in Engineers :
        TravBegin(op, root, u)

NextTraverse == TravCreate \/ TravAdd \/ TravQuery \/ TravStep \/ TravEnd

\* A traversal that has been started keeps running until it returns.
SpecTraverse ==
    Init /\ [][NextTraverse]_vars /\ WF_vars(TravStep) /\ WF_vars(TravEnd)

\* C15: FlatBOM(root) and Tree(root) terminate for every edge set, with
\* cycles too: a traversal that has started returns; and every row or node
\* visited or returned has depth at most 20.
C15_TraversalsTerminateWithinDepth ==
    /\ [](trav.op # "idle" =>
            /\ \A i \in 1..Len(trav.st.rows) : trav.st.rows[i].depth <= 20
            /\ \A i \in 1..Len(trav.st.queue) : trav.st.queue[i].depth <= 20)
    /\ [](resp.op \in {"bom", "tree"} /\ resp.status = 200 =>
            \A r \in resp.ret : r.depth <= 20)
    /\ (trav.op # "idle") ~> (trav.op = "idle")

\* Tree(root) has returned for a root that lies on a cycle, with a node at
\* depth 20.
C15_Witness ==
    /\ resp.op = "tree" /\ resp.status = 200
    /\ resp.id \in Descendants(resp.id)
    /\ \E r \in resp.ret : r.depth = 20

-----------------------------------------------------------------------------
(* Part attributes, and the document operations that edit metadata *)

rows_of_key(A, part_id, key) ==
    {a \in DOMAIN A : A[a].part_id = part_id /\ A[a].attr_key = key}

\* INSERT ... ON CONFLICT(part_id, attr_key) DO UPDATE SET attr_value, attr_order
set_attribute(A, part_id, key, value, order) ==
    LET old == rows_of_key(A, part_id, key)
        id  == NextId(A)
        row == [part_id |-> part_id, attr_key |-> key, attr_value |-> value,
                attr_order |-> order]
    IN  IF old # {}
        THEN [a \in DOMAIN A |->
                 IF a \in old
                 THEN [A[a] EXCEPT !.attr_value = value, !.attr_order = order]
                 ELSE A[a]]
        ELSE [a \in DOMAIN A \cup {id} |-> IF a = id THEN row ELSE A[a]]

delete_attribute(A, part_id, key) ==
    [a \in DOMAIN A \ rows_of_key(A, part_id, key) |-> A[a]]

get_attributes(A, part_id) == {A[a] : a \in {b \in DOMAIN A : A[b].part_id = part_id}}

attach_document(D, part_id, doc_id) ==
    [d \in DOMAIN D |-> IF d = doc_id THEN [D[d] EXCEPT !.part_id = part_id]
                        ELSE D[d]]

detach_document(D, doc_id) ==
    [d \in DOMAIN D |-> IF d = doc_id THEN [D[d] EXCEPT !.part_id = NULL]
                        ELSE D[d]]

\* DELETE FROM documents WHERE id=?, with PRAGMA foreign_keys=ON.  What
\* happens to the FileVersion rows of the document is decided by the DDL of
\* file_versions.document_id: the rows go too (ON DELETE CASCADE), the
\* statement raises IntegrityError (a plain REFERENCES), or the rows stay (no
\* foreign key).  Each outcome is a record [deleted, file_versions].
delete_document_outcomes(FV, doc_id) ==
    LET mine == {v \in DOMAIN FV : FV[v].document_id = doc_id}
    IN  IF mine = {}
        THEN {[deleted |-> TRUE, file_versions |-> FV]}
        ELSE {[deleted |-> TRUE, file_versions |-> delete_file_version(FV, mine)],
              [deleted |-> FALSE, file_versions |-> FV],
              [deleted |-> TRUE, file_versions |-> FV]}

delete_document_row(D, doc_id) == [d \in DOMAIN D \ {doc_id} |-> D[d]]

\* PUT /api/parts/{part_id}/attributes
SetAttribute(part_id, key, value, order, user) ==
    LET A2 == set_attribute(part_attributes, part_id, key, value, order)
    IN  /\ IF get_part(parts, part_id) = None
           THEN /\ resp' = Response("set_attribute", part_id, user, 404, NULL, None)
                /\ UNCHANGED part_attributes
           ELSE /\ part_attributes' = A2
                /\ resp' = Response("set_attribute", part_id, user, 200, NULL,
                                    get_attributes(A2, part_id))
        /\ UNCHANGED <<partVars, audit_log, now, part_relationships, trav,
                       docVars, reqVars>>

\* DELETE /api/parts/{part_id}/attributes/{key}
DeleteAttribute(part_id, key, user) ==
    /\ part_attributes' = delete_attribute(part_attributes, part_id, key)
    /\ resp' = Response("delete_attribute", part_id, user, 200, NULL, None)
    /\ UNCHANGED <<partVars, audit_log, now, part_relationships, trav,
                   docVars, reqVars>>

\* POST /api/parts/{part_id}/documents/{doc_id}
Attach(part_id, doc_id, user) ==
    /\ IF get_part(parts, part_id) = None
          \/ get_document(documents, doc_id) = None
       THEN /\ resp' = Response("attach", doc_id, user, 404, NULL, None)
            /\ UNCHANGED documents
       ELSE /\ documents' = attach_document(documents, part_id, doc_id)
            /\ resp' = Response("attach", doc_id, user, 200, NULL, None)
    /\ UNCHANGED <<partVars, audit_log, now, graphVars, file_versions, disk,
                   reqVars>>

\* DELETE /api/parts/{part_id}/documents/{doc_id}
Detach(part_id, doc_id, user) ==
    /\ documents' = detach_document(documents, doc_id)
    /\ resp' = Response("detach", doc_id, user, 200, NULL, None)
    /\ UNCHANGED <<partVars, audit_log, now, graphVars, file_versions, disk,
                   reqVars>>

\* DELETE /api/documents/{doc_id}
DeleteDocument(doc_id, user) ==
    LET doc == get_document(documents, doc_id)
    IN  /\ IF doc = None
           THEN /\ resp' = Response("delete_document", doc_id, user, 200, NULL, None)
                /\ UNCHANGED <<documents, file_versions, disk, audit_log>>
           ELSE \E o \in delete_document_outcomes(file_versions, doc_id) :
                   IF ~o.deleted
                   THEN /\ resp' = Response("delete_document", doc_id, user,
                                            500, NULL, None)
                        /\ UNCHANGED <<documents, file_versions, disk, audit_log>>
                   ELSE LET row == CHOOSE d \in doc : TRUE
                        IN  /\ documents' = delete_document_row(documents, doc_id)
                            /\ file_versions' = o.file_versions
                            /\ audit_log' =
                                   _log_audit(audit_log, user, "delete_document",
                                              "document", doc_id,
                                              [filename |-> row.filename])
                            /\ disk' = RemoveFiles(disk, {row.stored_path})
                            /\ resp' = Response("delete_document", doc_id, user,
                                                200, NULL, None)
        /\ UNCHANGED <<partVars, now, graphVars, reqVars>>

-----------------------------------------------------------------------------
(* SpecAudit: the operations that write, and what they leave in the log *)

AttrKeys == {"material"}
AttrValues == {"steel", "brass"}

AuditCreate ==
    /\ \E u \in Engineers : Create(<<96 + NextId(parts)>>, "bracket", <<65>>, u)
    /\ Cardinality(DOMAIN parts') <= MaxAuditParts
    /\ Budget(MaxAuditEntries)
AuditPartOp ==
    /\ \E p \in DOMAIN parts, u \in Engineers :
          \/ Checkout(p, "", u)
          \/ Checkin(p, u)
    /\ Budget(MaxAuditEntries)
AuditSetAttribute ==
    \E p \in DOMAIN parts, k \in AttrKeys, v \in AttrValues, u \in Engineers :
        SetAttribute(p, k, v, 0, u)
AuditDeleteAttribute ==
    \E p \in DOMAIN parts, k \in AttrKeys, u \in Engineers :
        DeleteAttribute(p, k, u)
AuditUpload ==
    /\ \E file_data \in Contents, p \in DOMAIN parts, u \in Engineers :
          SaveUpload(file_data, [stem |-> "a", suffix |-> ".prt"], p, "", u)
    /\ \A v \in DOMAIN file_versions' : v <= MaxAuditVersions
    /\ \A d \in DOMAIN documents' : d <= MaxDocs
    /\ Budget(MaxAuditEntries)
AuditRestore ==
    \E d \in DOMAIN documents, v \in DOMAIN file_versions, u \in Engineers :
        RestoreVersion(d, v, u)
AuditAttach ==
    \E p \in DOMAIN parts, d \in DOMAIN documents, u \in Engineers :
        Attach(p, d, u)
AuditDetach ==
    \E p \in DOMAIN parts, d \in DOMAIN documents, u \in Engineers :
        Detach(p, d, u)
AuditDeleteDocument ==
    /\ \E d \in DOMAIN documents, u \in Engineers : DeleteDocument(d, u)
    /\ Budget(MaxAuditEntries)

NextAudit ==
    \/ AuditCreate
    \/ AuditPartOp
    \/ AuditSetAttribute
    \/ AuditDeleteAttribute
    \/ AuditUpload
    \/ AuditRestore
    \/ AuditAttach
    \/ AuditDetach
    \/ AuditDeleteDocument

SpecAudit == Init /\ [][NextAudit]_vars

\* The content of the canonical file of every document, where there is one.
CanonicalContent(D, dk) ==
    {<<D[d].stored_path, dk[D[d].stored_path]>> :
        d \in {e \in DOMAIN D : D[e].stored_path \in DOMAIN dk}}

\* C16: every successful operation that changes Part, PartAttribute,
\* Relationship, Document or FileVersion state, or the content of a canonical
\* file, appends an audit entry.
C16_EveryMutationIsAudited ==
    [][(/\ resp'.status \in {200, 201}
        /\ \/ <<parts, part_attributes, part_relationships, documents,
                file_versions>>' # <<parts, part_attributes,
                                     part_relationships, documents,
                                     file_versions>>
           \/ CanonicalContent(documents', disk')
                  # CanonicalContent(documents, disk))
       => /\ Len(audit_log') = Len(audit_log) + 1
          /\ SubSeq(audit_log', 1, Len(audit_log)) = audit_log]_vars


\* C17: the audit log is append-only: every step leaves the entries that
\* were there in place and in order, and adds zero or more entries at the
\* end; so the log of a later state extends the log of every earlier state.
C17_AuditLogAppendOnly ==
    [][/\ Len(audit_log') >= Len(audit_log)
       /\ SubSeq(audit_log', 1, Len(audit_log)) = audit_log]_vars

\* Three entries have been appended, by operations of different kinds.
C17_Witness ==
    /\ Len(audit_log) = 3
    /\ audit_log[1].action = "create_part"
    /\ audit_log[2].action = "checkout"
    /\ audit_log[3].action = "checkin"

-----------------------------------------------------------------------------
(* Download: get_file_path, on paths written as sequences of components *)

\* Path components, as text (sequences of character codes).
comp_srv     == <<115, 114, 118>>               \* "srv"
comp_plm     == <<112, 108, 109>>               \* "plm"
comp_files   == <<102, 105, 108, 101, 115>>     \* "files"
comp_files_x == comp_files \o <<95, 120>>       \* "files_x"
comp_a       == <<97>>                          \* "a"
comp_up      == <<46, 46>>                      \* ".."

\* config.FILES_ROOT, by default "/srv/plm/files"
FILES_ROOT == <<comp_srv, comp_plm, comp_files>>

\* Path.resolve() of an absolute path without symbolic links: ".." drops the
\* component before it, and stays at "/" when there is none.
RECURSIVE resolve_onto(_, _)
resolve_onto(done, rest) ==
    IF rest = <<>> THEN done
    ELSE IF Head(rest) = comp_up
    THEN resolve_onto(IF done = <<>> THEN done
                      ELSE SubSeq(done, 1, Len(done) - 1), Tail(rest))
    ELSE resolve_onto(Append(done, Head(rest)), Tail(rest))

resolve(path) == resolve_onto(<<>>, path)

\* str(p): "/" before every component; "/" alone for the root directory.
RECURSIVE joined(_)
joined(path) ==
    IF path = <<>> THEN <<>> ELSE <<47>> \o Head(path) \o joined(Tail(path))

path_str(path) == IF path = <<>> THEN <<47>> ELSE joined(path)

startswith(s, prefix) ==
    Len(prefix) <= Len(s) /\ SubSeq(s, 1, Len(prefix)) = prefix

\* The set with the path returned, or the empty set for PermissionError.
get_file_path(stored_path) ==
    LET p    == resolve(stored_path)
        root == resolve(FILES_ROOT)
    IN  IF ~startswith(path_str(p), path_str(root)) THEN {} ELSE {p}

\* GET /api/documents/{doc_id}/download
Download(doc_id, user) ==
    LET doc == get_document(documents, doc_id)
    IN  /\ IF doc = None
           THEN resp' = Response("download", doc_id, user, 404, NULL, None)
           ELSE LET fpath == get_file_path((CHOOSE d \in doc : TRUE).stored_path)
                IN  IF fpath = {}
                    THEN resp' = Response("download", doc_id, user, 400, NULL, None)
                    ELSE IF \E q \in fpath : ~exists(q)
                    THEN resp' = Response("download", doc_id, user, 404, NULL,
                                          {[path |-> q] : q \in fpath})
                    ELSE resp' = Response("download", doc_id, user, 200, NULL,
                                          {[path |-> q] : q \in fpath})
        /\ UNCHANGED <<partVars, audit_log, now, graphVars, docVars, reqVars>>

-----------------------------------------------------------------------------
(* SpecPath: downloads of a document whose stored path is any path at all *)

PathComponents ==
    {comp_srv, comp_plm, comp_files, comp_files_x, comp_a, comp_up}

StoredPaths == UNION {[1..n -> PathComponents] : n \in 1..MaxPathLen}

\* One document row.  Its stored_path is dest_folder / filename, where the
\* file name is the client's: an absolute name replaces dest_folder, and a
\* name may hold ".." components.  The file may or may not be on disk.
InitPath ==
    /\ parts = << >>
    /\ part_revisions = << >>
    /\ audit_log = << >>
    /\ now = 60
    /\ resp = Response("none", NULL, NULL, 0, NULL, None)
    /\ \E sp \in StoredPaths :
          /\ documents = <<[part_id |-> NULL, filename |-> "a",
                            stored_path |-> sp, file_type |-> "",
                            description |-> "", uploaded_by |-> 2,
                            uploaded_at |-> 60]>>
          /\ disk \in {<< >>, [q \in {resolve(sp)} |-> "x"]}
    /\ file_versions = << >>
    /\ pc = [w \in Workers |-> "idle"]
    /\ call = [w \in Workers |-> NULL]
    /\ seen = [w \in Workers |-> None]
    /\ result = [w \in Workers |-> NULL]
    /\ part_relationships = << >>
    /\ part_attributes = << >>
    /\ trav = [op |-> "idle"]

PathDownload == \E d \in 1..(MaxDocs + 1), u \in Users : Download(d, u)

NextPath == PathDownload

SpecPath == InitPath /\ [][NextPath]_vars

\* The path lies inside the root directory: the root itself, or below it.
Inside(path, root) ==
    Len(root) <= Len(path) /\ SubSeq(path, 1, Len(root)) = root

\* C18: ResolveSafePath(stored_path) returns the resolved path if and only
\* if that path lies inside the files root; every path outside it, a path in
\* a sibling directory such as /srv/plm/files_x/a too, is rejected.
C18_SafePathIffInsideRoot ==
    (resp.op = "download" /\ resp.id \in DOMAIN documents)
    => LET p == resolve(documents[resp.id].stored_path)
       IN  IF Inside(p, resolve(FILES_ROOT))
           THEN resp.status # 400 /\ resp.ret = {[path |-> p]}
           ELSE resp.status = 400

-----------------------------------------------------------------------------
(* SpecUpsert: uploads of CAD and other files to parts *)

UpsertCreate ==
    /\ \E u \in Engineers : Create(<<96 + NextId(parts)>>, "bracket", <<65>>, u)
    /\ Cardinality(DOMAIN parts') <= MaxUpsertParts
UpsertUpload ==
    /\ \E f \in FileNames, file_data \in Contents, p \in DOMAIN parts,
          u \in Engineers : SaveUpload(file_data, f, p, "", u)
    /\ \A d \in DOMAIN documents' : d <= MaxUpsertDocs
    /\ \A v \in DOMAIN file_versions' : v <= MaxUpsertVersions

NextUpsert == UpsertCreate \/ UpsertUpload

SpecUpsert == Init /\ [][NextUpsert]_vars

\* C19: after any sequence of SaveUpload calls with a part_id, for CAD and
\* other file names alike, there is at most one Document row per
\* (part_id, filename) pair.
C19_OneDocumentPerPartAndName ==
    \A d1 \in DOMAIN documents, d2 \in DOMAIN documents :
        (/\ documents[d1].part_id # NULL
         /\ documents[d1].part_id = documents[d2].part_id
         /\ documents[d1].filename = documents[d2].filename)
        => d1 = d2

-----------------------------------------------------------------------------
(* Checkin by the holder, by an admin, and by anybody else (under Spec) *)

\* C20: a Checkin of an existing part by an actor who is neither its
\* checkout holder nor an admin is rejected, leaves checked_out_by,
\* checked_out_at and checked_out_station as they were and appends no audit
\* entry; a Checkin by the holder or by an admin clears the three fields.
C20_CheckinOnlyByHolderOrAdmin ==
    [][(resp'.op = "checkin" /\ resp'.id \in DOMAIN parts)
       => IF parts[resp'.id].checked_out_by # resp'.user
             /\ resp'.user \notin Admins
          THEN /\ resp'.status = 403
               /\ parts'[resp'.id].checked_out_by
                      = parts[resp'.id].checked_out_by
               /\ parts'[resp'.id].checked_out_at
                      = parts[resp'.id].checked_out_at
               /\ parts'[resp'.id].checked_out_station
                      = parts[resp'.id].checked_out_station
               /\ audit_log' = audit_log
          ELSE /\ resp'.status = 200
               /\ parts'[resp'.id].checked_out_by = NULL
               /\ parts'[resp'.id].checked_out_at = NULL
               /\ parts'[resp'.id].checked_out_station = NullText]_vars

\* A Checkin has been rejected while somebody else holds the part.
C20_Witness ==
    /\ resp.op = "checkin" /\ resp.status = 403
    /\ resp.id \in DOMAIN parts
    /\ parts[resp.id].checked_out_by \notin {NULL, resp.user}
    /\ resp.user \notin Admins

-----------------------------------------------------------------------------
(* SpecIdem: Release and Unrelease, repeated, on parts that may be held *)

IdemCreate ==
    /\ \E u \in Engineers : Create(<<96 + NextId(parts)>>, "bracket", <<65>>, u)
    /\ Cardinality(DOMAIN parts') <= MaxIdemParts
    /\ Budget(MaxIdemAudit)
IdemCheckout ==
    /\ \E p \in DOMAIN parts, u \in Engineers : Checkout(p, "ws7", u)
    /\ Budget(MaxIdemAudit)
IdemRelease ==
    /\ \E p \in DOMAIN parts, u \in Admins : Release(p, u)
    /\ Budget(MaxIdemAudit)
IdemUnrelease ==
    /\ \E p \in DOMAIN parts, u \in Admins : Unrelease(p, u)
    /\ Budget(MaxIdemAudit)

NextIdem ==
    IdemCreate \/ IdemCheckout \/ IdemRelease \/ IdemUnrelease \/ TickSecond

SpecIdem == Init /\ [][NextIdem]_vars

\* The fields of a part row that the claim of idempotence is about.
StateFields(row) ==
    <<row.release_status, row.is_locked, row.part_revision,
      row.checked_out_by, row.checked_out_at, row.checked_out_station>>

\* C21: Release and Unrelease are idempotent on part state: a Release that
\* follows a Release of the same part leaves release_status, is_locked,
\* part_revision and the checkout fields as the first one left them, and
\* likewise for Unrelease.
C21_ReleaseUnreleaseIdempotent ==
    [][(/\ resp.op \in {"release", "unrelease"}
        /\ resp.status = 200
        /\ resp'.op = resp.op
        /\ resp'.id = resp.id)
       => /\ resp'.status = 200
          /\ StateFields(parts'[resp.id]) = StateFields(parts[resp.id])]_vars

\* Release has run twice in a row on a part that is checked out, the second
\* time in a later second.
C21_Witness ==
    /\ Len(audit_log) >= 2
    /\ audit_log[Len(audit_log)].action = "release"
    /\ audit_log[Len(audit_log) - 1].action = "release"
    /\ resp.op = "release" /\ resp.id \in DOMAIN parts
    /\ parts[resp.id].checked_out_by # NULL
    /\ parts[resp.id].updated_at > parts[resp.id].checked_out_at

-----------------------------------------------------------------------------
(* SpecHold: checkouts and checkins of a part, one request at a time *)

HoldCreate ==
    /\ \E u \in Engineers : Create(<<96 + NextId(parts)>>, "bracket", <<65>>, u)
    /\ Cardinality(DOMAIN parts') <= MaxHoldParts
    /\ Budget(MaxHoldAudit)
HoldCheckout ==
    /\ \E p \in DOMAIN parts, st \in Stations, u \in Users : Checkout(p, st, u)
    /\ Budget(MaxHoldAudit)
HoldCheckin ==
    /\ \E p \in DOMAIN parts, u \in Users : Checkin(p, u)
    /\ Budget(MaxHoldAudit)

NextHold == HoldCreate \/ HoldCheckout \/ HoldCheckin \/ TickSecond

SpecHold == Init /\ [][NextHold]_vars

\* C22: a Checkout of a part that already has a holder, the caller or
\* somebody else, issued after the earlier Checkout completed, returns
\* Conflict (409), leaves checked_out_by, checked_out_at and
\* checked_out_station unchanged and appends no audit entry.
C22_CheckoutOfHeldPartConflicts ==
    [][(/\ now' = now
        /\ resp'.op = "checkout"
        /\ resp'.id \in DOMAIN parts
        /\ parts[resp'.id].checked_out_by # NULL)
       => /\ resp'.status = 409
          /\ parts'[resp'.id].checked_out_by = parts[resp'.id].checked_out_by
          /\ parts'[resp'.id].checked_out_at = parts[resp'.id].checked_out_at
          /\ parts'[resp'.id].checked_out_station
                 = parts[resp'.id].checked_out_station
          /\ audit_log' = audit_log]_vars

\* A Checkout by another user, from another station and in a later second,
\* has been answered 409.
C22_Witness ==
    /\ resp.op = "checkout" /\ resp.status = 409
    /\ resp.id \in DOMAIN parts
    /\ parts[resp.id].checked_out_by \notin {NULL, resp.user}
    /\ parts[resp.id].checked_out_station # resp.arg
    /\ parts[resp.id].checked_out_at < now

-----------------------------------------------------------------------------
(* The part_number of a part, over the operations of Spec *)

\* C23: no operation changes the part_number of an existing part: every
\* step keeps every part and its part_number, so the number is the same in
\* every state from creation on, across Update and ReviseRevision too.
C23_PartNumberImmutable ==
    [][\A p \in DOMAIN parts :
          /\ p \in DOMAIN parts'
          /\ parts'[p].part_number = parts[p].part_number]_vars

\* A part has been created, updated and revised.
C23_Witness ==
    /\ Len(audit_log) = 3
    /\ audit_log[1].action = "create_part"
    /\ audit_log[2].action = "update_part"
    /\ audit_log[3].action = "bump_revision"
    /\ audit_log[2].entity_id = audit_log[1].entity_id
    /\ audit_log[3].entity_id = audit_log[1].entity_id

\* The part before the last one on a path key "…/q/id".
PathParent(path, id) ==
    CHOOSE q \in DOMAIN parts :
        LET tail == int_text(q) \o <<47>> \o int_text(id)
        IN  /\ Len(path) >= Len(tail)
            /\ SubSeq(path, Len(path) - Len(tail) + 1, Len(path)) = tail
            /\ Len(path) = Len(tail) \/ path[Len(path) - Len(tail)] = 47

\* C24: for every edge set, one where a part has several parents too, each
\* FlatBOM(root) row carries the quantity and relationship_type of the edge
\* from the row's parent on its traversal path to the part, never those of
\* an edge from a different parent.
C24_BomRowCarriesAttachingEdge ==
    (resp.op = "bom" /\ resp.status = 200) =>
        \A r \in resp.ret :
            \E e \in DOMAIN part_relationships :
                /\ part_relationships[e].parent_part_id = PathParent(r.path, r.id)
                /\ part_relationships[e].child_part_id = r.id
                /\ r.quantity = part_relationships[e].quantity
                /\ r.relationship_type = part_relationships[e].relationship_type

-----------------------------------------------------------------------------
(* SpecOrder: BOMs of parts whose numbers are given in any order *)

OrderNumbers == {<<97>>, <<98>>, <<99>>}      \* "a", "b", "c"

OrderCreate ==
    /\ \E raw \in OrderNumbers, u \in Engineers :
          Create(raw, "bracket", <<65>>, u)
    /\ resp'.status = 201
    /\ Cardinality(DOMAIN parts') <= MaxOrderParts
OrderAdd ==
    /\ \E parent \in DOMAIN parts, child \in DOMAIN parts, u \in Engineers :
          AddEdge(parent, child, 1, "assembly", "", u)
    /\ resp'.status = 201
    /\ \A r \in DOMAIN part_relationships' : r <= MaxOrderEdges
OrderQuery == \E root \in DOMAIN parts, u \in Engineers : FlatBOM(root, u)

OrderTree == \E root \in DOMAIN parts, u \in Engineers : Tree(root, u)

NextOrder == OrderCreate \/ OrderAdd \/ OrderQuery \/ OrderTree

SpecOrder == Init /\ [][NextOrder]_vars

\* The path key of the parent of a row: the key without its last component.
ParentPath(r) == SubSeq(r.path, 1, Len(r.path) - Len(int_text(r.id)) - 1)

\* r3 lies below r1: its path key continues that of r1.
Below(r3, r1) ==
    /\ Len(r3.path) > Len(r1.path)
    /\ SubSeq(r3.path, 1, Len(r1.path) + 1) = r1.path \o <<47>>

\* C25: in the output of FlatBOM(root) the children of any one parent appear
\* in ascending part_number order, each followed by its own descendants, for
\* every assignment of part ids and part_numbers.
C25_BomSiblingsByPartNumber ==
    (resp.op = "bom" /\ resp.status = 200) =>
        \A r1, r2 \in resp.ret :
            (/\ ParentPath(r1) = ParentPath(r2)
             /\ text_less(r1.part_number, r2.part_number))
            => /\ listed_before(r1, r2)
               /\ \A r3 \in resp.ret : Below(r3, r1) => listed_before(r3, r2)

\* The rows of a FlatBOM result that are listed before r, and those that
\* share its place (rows of one path key come in any order).
RowsBefore(ret, r) == {q \in ret : listed_before(q, r)}
RowsTied(ret, r) == {q \in ret : q.path = r.path}

\* C26: for every edge set and root, Tree(root) and FlatBOM(root) describe
\* the same traversal: the nodes of Tree(root) below the root, in pre-order,
\* give the same sequence of (part id, depth) pairs as the rows of
\* FlatBOM(root).
C26_TreeAndFlatBomAgree ==
    (resp.op = "bom" /\ resp.status = 200) =>
        LET nodes == {n \in get_tree(part_relationships, parts, resp.id) :
                         n.pos > 1}
        IN  /\ Cardinality(nodes) = Cardinality(resp.ret)
            /\ \A n \in nodes :
                   \E r \in resp.ret :
                       /\ r.id = n.id
                       /\ r.depth = n.depth
                       /\ Cardinality(RowsBefore(resp.ret, r)) <= n.pos - 2
                       /\ n.pos - 2 < Cardinality(RowsBefore(resp.ret, r))
                                       + Cardinality(RowsTied(resp.ret, r))

-----------------------------------------------------------------------------
(* Requests whose store statements interleave with those of other requests. *)
(* Each store method opens a connection of its own, so between the router's *)
(* get_part, the method's statements and _log_audit the statements of       *)
(* another request may run.  A request is at "rq_read", "rq_write",         *)
(* "rq_audit" or "rq_respond" and ends at "done".                           *)

\* Database.get_part: the row of parts, with the part's attributes.
get_part_full(P, A, part_id) ==
    IF part_id \in DOMAIN P
    THEN {[f \in DOMAIN P[part_id] \cup {"attributes"} |->
              IF f = "attributes" THEN get_attributes(A, part_id)
              ELSE P[part_id][f]]}
    ELSE None

\* The router's part of a request up to its call of the store method: the
\* part is looked up (404), update_part tests is_locked (423) and checkin
\* tests the holder (403).
ReqBegin(w, op, part_id, user, arg) ==
    LET part == get_part(parts, part_id)
        stop(status) ==
            /\ pc' = [pc EXCEPT ![w] = "done"]
            /\ result' = [result EXCEPT
                            ![w] = [status |-> status, ret |-> None, rev |-> <<>>]]
    IN  /\ pc[w] = "idle"
        /\ call' = [call EXCEPT ![w] = [op |-> op, part_id |-> part_id,
                                        user |-> user, arg |-> arg]]
        /\ IF part = None THEN stop(404)
           ELSE IF op = "update" /\ \E p \in part : p.is_locked # 0
           THEN stop(423)
           ELSE IF op = "checkin" /\ (\E p \in part : p.checked_out_by # user)
                   /\ ~can_admin(user)
           THEN stop(403)
           ELSE /\ pc' = [pc EXCEPT ![w] = IF op = "revise" THEN "rq_read"
                                           ELSE "rq_write"]
                /\ UNCHANGED result
        /\ UNCHANGED <<partVars, audit_log, now, resp, graphVars, docVars, seen>>

\* bump_revision, line 353-357: the part is read and the next label computed
ReqRead(w) ==
    LET part == get_part_full(parts, part_attributes, call[w].part_id)
    IN  /\ pc[w] = "rq_read"
        /\ seen' = [seen EXCEPT ![w] = part]
        /\ IF part = None \/ \E p \in part : chr_raises(p.part_revision)
           THEN /\ pc' = [pc EXCEPT ![w] = "done"]
                /\ result' = [result EXCEPT
                                ![w] = [status |-> 500, ret |-> None, rev |-> <<>>]]
           ELSE /\ pc' = [pc EXCEPT ![w] = "rq_write"]
                /\ UNCHANGED result
        /\ UNCHANGED <<partVars, audit_log, now, resp, graphVars, docVars, call>>

\* The write transaction of the store method: INSERT and UPDATE of
\* bump_revision, or the UPDATE of update_part, checkin_part, release_part.
ReqWrite(w) ==
    LET c    == call[w]
        read == CHOOSE p \in seen[w] : TRUE
    IN  /\ pc[w] = "rq_write"
        /\ pc' = [pc EXCEPT ![w] = "rq_audit"]
        /\ IF c.op = "revise"
           THEN /\ part_revisions' =
                       Append(part_revisions,
                              revision_row(c.part_id, read, c.arg, c.user))
                /\ parts' = bump_write(parts, c.part_id,
                                       next_revision(read.part_revision))
           ELSE /\ parts' = IF c.op = "update"
                            THEN update_part(parts, c.part_id, c.arg)
                            ELSE IF c.op = "checkin"
                            THEN checkin_part(parts, c.part_id)
                            ELSE release_part(parts, c.part_id)
                /\ UNCHANGED part_revisions
        /\ UNCHANGED <<audit_log, now, resp, graphVars, docVars, call, seen, result>>

\* _log_audit, called last by the store method
ReqAudit(w) ==
    LET c == call[w]
    IN  /\ pc[w] = "rq_audit"
        /\ pc' = [pc EXCEPT ![w] = "rq_respond"]
        /\ audit_log' =
               IF c.op = "revise"
               THEN LET current_rev == (CHOOSE p \in seen[w] : TRUE).part_revision
                    IN  _log_audit(audit_log, c.user, "bump_revision", "part",
                                   c.part_id,
                                   [from |-> current_rev,
                                    to |-> next_revision(current_rev)])
               ELSE IF c.op = "update"
               THEN _log_audit(audit_log, c.user, "update_part", "part",
                               c.part_id, c.arg)
               ELSE _log_audit(audit_log, c.user, c.op, "part", c.part_id,
                               NoDetail)
        /\ UNCHANGED <<partVars, now, resp, graphVars, docVars, call, seen, result>>

\* The router's answer: the new label of bump_revision, or the part as
\* get_part reads it now.
ReqRespond(w) ==
    LET c == call[w]
    IN  /\ pc[w] = "rq_respond"
        /\ pc' = [pc EXCEPT ![w] = "done"]
        /\ result' =
               [result EXCEPT
                  ![w] = IF c.op = "revise"
                         THEN [status |-> 200, ret |-> None,
                               rev |-> next_revision(
                                   (CHOOSE p \in seen[w] : TRUE).part_revision)]
                         ELSE [status |-> 200,
                               ret |-> get_part(parts, c.part_id), rev |-> <<>>]]
        /\ UNCHANGED <<partVars, audit_log, now, resp, graphVars, docVars, call, seen>>

-----------------------------------------------------------------------------
(* SpecReviseRace: two revise requests in flight on one part, among        *)
(* requests that run from request to response                               *)

RevCreate ==
    /\ \E u \in Engineers : Create(<<96 + NextId(parts)>>, "bracket", <<65>>, u)
    /\ Cardinality(DOMAIN parts') <= MaxRaceParts
    /\ Budget(MaxRaceAudit)
RevBegin ==
    \E w \in Workers, p \in DOMAIN parts, u \in Engineers :
        ReqBegin(w, "revise", p, u, "")
RevRead == \E w \in Workers : ReqRead(w)
RevWrite == \E w \in Workers : ReqWrite(w)
RevAudit == \E w \in Workers : ReqAudit(w) /\ Budget(MaxRaceAudit)
RevRespond == \E w \in Workers : ReqRespond(w)
RevUpdate ==
    /\ \E p \in DOMAIN parts, d \in PartUpdates, u \in Engineers : Update(p, d, u)
    /\ Budget(MaxRaceAudit)
RevSetAttribute ==
    /\ \E p \in DOMAIN parts, k \in AttrKeys, v \in AttrValues, u \in Engineers :
          SetAttribute(p, k, v, 0, u)
    /\ Budget(MaxRaceAudit)
RevRelease ==
    /\ \E p \in DOMAIN parts, u \in Admins : Release(p, u)
    /\ Budget(MaxRaceAudit)
RevCheckout ==
    /\ \E p \in DOMAIN parts, u \in Engineers : Checkout(p, "ws7", u)
    /\ Budget(MaxRaceAudit)

NextReviseRace ==
    \/ RevCreate
    \/ RevBegin
    \/ RevRead
    \/ RevWrite
    \/ RevAudit
    \/ RevRespond
    \/ RevUpdate
    \/ RevSetAttribute
    \/ RevRelease
    \/ RevCheckout

SpecReviseRace == Init /\ [][NextReviseRace]_vars

SnapshotsOf(p) == SelectSeq(part_revisions, LAMBDA r : r.part_id = p)

\* C27: under any interleaving of ReviseRevision calls on one part, every
\* call appends a snapshot labelled with the revision the part held just
\* before the call changed it, no two snapshots of a part carry the same
\* label, distinct calls return distinct new labels, and k completed calls
\* advance the revision by k (every part here is created at revision "A").
C27_ConcurrentRevisionsKeepDistinctLabels ==
    /\ [](\A i, j \in DOMAIN part_revisions :
             (i # j /\ part_revisions[i].part_id = part_revisions[j].part_id)
                => part_revisions[i].revision_label
                      # part_revisions[j].revision_label)
    /\ [](\A v, w \in Workers :
             (/\ v # w
              /\ pc[v] = "done" /\ pc[w] = "done"
              /\ result[v].status = 200 /\ result[w].status = 200
              /\ call[v].part_id = call[w].part_id)
                => result[v].rev # result[w].rev)
    /\ [](\A p \in DOMAIN parts :
             parts[p].part_revision = <<65 + Len(SnapshotsOf(p))>>)
    /\ [][Len(part_revisions') > Len(part_revisions)
             => LET r == part_revisions'[Len(part_revisions')]
                IN  r.revision_label = parts[r.part_id].part_revision]_vars

\* The fields of the part record that the claim lists.
RecordFields ==
    {"part_name", "description", "part_level", "release_status", "is_locked",
     "checked_out_by", "checked_out_at", "checked_out_station", "attributes"}

\* C28: the snapshot written by ReviseRevision equals the part record (name,
\* description, level, status, lock, checkout fields, attributes) as it
\* stood when the revision label was changed, also when an Update,
\* SetAttribute, Release or Checkout of the part runs during the call.
C28_SnapshotIsRecordAtBump ==
    [][Len(part_revisions') > Len(part_revisions)
          => LET r   == part_revisions'[Len(part_revisions')]
                 now_ == CHOOSE p \in get_part_full(parts, part_attributes,
                                                    r.part_id) : TRUE
             IN  \A f \in RecordFields : r.snapshot_json[f] = now_[f]]_vars

-----------------------------------------------------------------------------
(* SpecGuardRace: update and checkin requests in flight between the guard  *)
(* of the router and the write of the store, among Release and Checkout    *)

GuardCreate ==
    /\ \E u \in Engineers : Create(<<96 + NextId(parts)>>, "bracket", <<65>>, u)
    /\ Cardinality(DOMAIN parts') <= MaxGuardParts
    /\ Budget(MaxGuardAudit)
GuardBeginUpdate ==
    \E w \in Workers, p \in DOMAIN parts, d \in PartUpdates, u \in Engineers :
        ReqBegin(w, "update", p, u, d)
GuardBeginCheckin ==
    \E w \in Workers, p \in DOMAIN parts, u \in Users :
        ReqBegin(w, "checkin", p, u, NULL)
GuardWrite == \E w \in Workers : ReqWrite(w)
GuardAudit == \E w \in Workers : ReqAudit(w) /\ Budget(MaxGuardAudit)
GuardRespond == \E w \in Workers : ReqRespond(w)
GuardRelease ==
    /\ \E p \in DOMAIN parts, u \in Admins : Release(p, u)
    /\ Budget(MaxGuardAudit)
GuardCheckout ==
    /\ \E p \in DOMAIN parts, u \in Users : Checkout(p, "ws7", u)
    /\ Budget(MaxGuardAudit)

NextGuardRace ==
    \/ GuardCreate
    \/ GuardBeginUpdate
    \/ GuardBeginCheckin
    \/ GuardWrite
    \/ GuardAudit
    \/ GuardRespond
    \/ GuardRelease
    \/ GuardCheckout

SpecGuardRace == Init /\ [][NextGuardRace]_vars

\* C29: under any interleaving of an Update with a Release of the same part,
\* part_name, description and part_level of a part are never written while
\* the part is locked.
C29_NoUpdateWhileLocked ==
    [][\A p \in DOMAIN parts :
          (<<parts'[p].part_name, parts'[p].description, parts'[p].part_level>>
              # <<parts[p].part_name, parts[p].description, parts[p].part_level>>)
             => parts[p].is_locked = 0]_vars

\* C30: under any interleaving of Checkin and Checkout requests, the write
\* of a Checkin request clears a checkout only when the request's user is
\* the holder or an administrator.
C30_CheckinNeverClearsAnothersCheckout ==
    [][\A w \in Workers :
          (/\ pc[w] = "rq_write" /\ pc'[w] = "rq_audit"
           /\ call[w].op = "checkin"
           /\ parts[call[w].part_id].checked_out_by # NULL)
             => \/ call[w].user = parts[call[w].part_id].checked_out_by
                \/ can_admin(call[w].user)]_vars

-----------------------------------------------------------------------------
(* SpecFrame: the whole lifecycle of one part, for what each request      *)
(* leaves alone                                                             *)

FrameCreate ==
    /\ \E u \in Engineers : Create(<<96 + NextId(parts)>>, "bracket", <<65>>, u)
    /\ Cardinality(DOMAIN parts') <= MaxFrameParts
    /\ Budget(MaxFrameAudit)
FrameUpdate ==
    /\ \E p \in DOMAIN parts, d \in PartUpdates, u \in Engineers : Update(p, d, u)
    /\ Budget(MaxFrameAudit)
FrameCheckout ==
    /\ \E p \in DOMAIN parts, u \in Users : Checkout(p, "ws7", u)
    /\ Budget(MaxFrameAudit)
FrameCheckin ==
    /\ \E p \in DOMAIN parts, u \in Users : Checkin(p, u)
    /\ Budget(MaxFrameAudit)
FrameRelease ==
    /\ \E p \in DOMAIN parts, u \in Admins : Release(p, u)
    /\ Budget(MaxFrameAudit)
FrameUnrelease ==
    /\ \E p \in DOMAIN parts, u \in Admins : Unrelease(p, u)
    /\ Budget(MaxFrameAudit)
FrameRevise ==
    /\ \E p \in DOMAIN parts, u \in Engineers : ReviseRevision(p, "", u)
    /\ Budget(MaxFrameAudit)

NextFrame ==
    \/ FrameCreate
    \/ FrameUpdate
    \/ FrameCheckout
    \/ FrameCheckin
    \/ FrameRelease
    \/ FrameUnrelease
    \/ FrameRevise

SpecFrame == Init /\ [][NextFrame]_vars

CheckoutFields(row) ==
    <<row.checked_out_by, row.checked_out_at, row.checked_out_station>>
LockFields(row) == <<row.release_status, row.is_locked, row.part_revision>>

AuditEntriesOf(action, p) ==
    {i \in DOMAIN audit_log :
        /\ audit_log[i].action = action
        /\ audit_log[i].entity_type = "part"
        /\ audit_log[i].entity_id = p}

\* C32: a mutating operation commits its store writes and its audit entry
\* together: in no state, whether seen by another operation or left by a
\* crash, is a revision bump committed whose audit entry is not, so every
\* part has as many bump_revision entries as snapshot rows.
C32_MutationCommitsWithAuditEntry ==
    \A p \in DOMAIN parts :
        Len(SnapshotsOf(p)) = Cardinality(AuditEntriesOf("bump_revision", p))

-----------------------------------------------------------------------------
(* DocumentStore: a restore and an upload taken one file-system call at a  *)
(* time.  save_upload awaits the open and the write of the canonical file, *)
(* and either call may fail or the process stop between two steps.        *)

FileResult(status) == [status |-> status, ret |-> None, rev |-> << >>]

\* restore_version, line 111-120: the rows are read and the backup tested
RestoreBegin(w, doc_id, version_id, user) ==
    LET doc     == get_document(documents, doc_id)
        version == get_file_version(file_versions, version_id)
        found   == /\ doc # None /\ version # None
                   /\ exists((CHOOSE v \in version : TRUE).backup_path)
    IN  /\ pc[w] = "idle"
        /\ call' = [call EXCEPT ![w] = [op |-> "restore", doc_id |-> doc_id,
                                        version_id |-> version_id, user |-> user]]
        /\ IF found
           THEN /\ pc' = [pc EXCEPT ![w] = "rs_move"]
                /\ seen' = [seen EXCEPT
                              ![w] = {[god_path |-> (CHOOSE d \in doc : TRUE).stored_path,
                                       backup_path |->
                                           (CHOOSE v \in version : TRUE).backup_path]}]
                /\ UNCHANGED result
           ELSE /\ pc' = [pc EXCEPT ![w] = "done"]
                /\ result' = [result EXCEPT ![w] = FileResult(404)]
                /\ UNCHANGED seen
        /\ UNCHANGED <<partVars, graphVars, audit_log, now, resp, docVars>>

\* restore_version, line 122-128: the canonical file is moved to Temp
RestoreMove(w) ==
    LET god_path  == (CHOOSE s \in seen[w] : TRUE).god_path
        temp_dest == FilePath("Temp", god_path.stem \o "_" \o temp_label(now),
                              god_path.suffix)
    IN  /\ pc[w] = "rs_move"
        /\ pc' = [pc EXCEPT ![w] = "rs_copy"]
        /\ disk' = IF exists(god_path) THEN move(disk, god_path, temp_dest)
                   ELSE disk
        /\ UNCHANGED <<partVars, graphVars, audit_log, now, resp, documents, file_versions, call, seen, result>>

\* restore_version, line 131: the backup is copied to the canonical path
RestoreCopy(w) ==
    LET s == CHOOSE x \in seen[w] : TRUE
    IN  /\ pc[w] = "rs_copy"
        /\ pc' = [pc EXCEPT ![w] = "done"]
        /\ IF exists(s.backup_path)
           THEN /\ disk' = WriteFile(disk, s.god_path, disk[s.backup_path])
                /\ result' = [result EXCEPT ![w] = FileResult(200)]
           ELSE /\ result' = [result EXCEPT ![w] = FileResult(404)]
                /\ UNCHANGED disk
        /\ UNCHANGED <<partVars, graphVars, audit_log, now, resp, documents, file_versions, call, seen>>

\* save_upload, line 49-85: the backup and rotation, then aiofiles.open in
\* mode "wb", which truncates the canonical file
UploadOpen(w, file_data, f, part_id, description, user) ==
    LET filename  == filename_of(f)
        versioned == is_cad_file(f) /\ part_id # NULL
        god_path  == FilePath(_ext_folder(f), f.stem, f.suffix)
        found     == IF versioned
                     THEN first_existing(documents, part_id, filename) ELSE {}
    IN  /\ pc[w] = "idle"
        /\ file_data # ""
        /\ pc' = [pc EXCEPT ![w] = "up_write"]
        /\ call' = [call EXCEPT
                      ![w] = [op |-> "upload", file_data |-> file_data, f |-> f,
                              part_id |-> part_id, description |-> description,
                              user |-> user, god_path |-> god_path]]
        /\ \E existing \in IF found = {} THEN {NULL} ELSE found :
           \E s1 \in IF existing # NULL /\ exists(god_path)
                     THEN backup_and_rotate(existing, god_path, user)
                     ELSE {[disk |-> disk, file_versions |-> file_versions,
                            evicted |-> {}]} :
               /\ disk' = WriteFile(s1.disk, god_path, "")
               /\ file_versions' = s1.file_versions
        /\ UNCHANGED <<partVars, graphVars, audit_log, now, resp, documents, seen, result>>

\* save_upload, line 86-87: the bytes are written and the file closed
UploadWrite(w) ==
    /\ pc[w] = "up_write"
    /\ pc' = [pc EXCEPT ![w] = "up_record"]
    /\ disk' = WriteFile(disk, call[w].god_path, call[w].file_data)
    /\ UNCHANGED <<partVars, graphVars, audit_log, now, resp, documents, file_versions, call, seen, result>>

\* save_upload, line 89-103: the existing row is returned or a row created
UploadRecord(w) ==
    LET c         == call[w]
        filename  == filename_of(c.f)
        versioned == is_cad_file(c.f) /\ c.part_id # NULL
        found     == IF versioned
                     THEN first_existing(documents, c.part_id, filename) ELSE {}
    IN  /\ pc[w] = "up_record"
        /\ pc' = [pc EXCEPT ![w] = "done"]
        /\ IF found # {}
           THEN \E again \in found :
                    /\ result' = [result EXCEPT
                                    ![w] = [status |-> 201,
                                            ret |-> {documents[again]},
                                            rev |-> << >>]]
                    /\ UNCHANGED <<documents, audit_log>>
           ELSE LET D2 == create_document(documents, filename, c.god_path,
                                          suffix_ext_lower(c.f.suffix),
                                          c.description, c.user, c.part_id)
                IN  \E doc \in rows_at_path(D2, c.god_path) :
                        /\ documents' = D2
                        /\ audit_log' =
                               _log_audit(audit_log, c.user, "upload_document",
                                          "document", doc,
                                          [filename |-> filename,
                                           part_id |-> c.part_id])
                        /\ result' = [result EXCEPT
                                        ![w] = [status |-> 201, ret |-> {D2[doc]},
                                                rev |-> << >>]]
        /\ UNCHANGED <<partVars, graphVars, now, resp, file_versions, disk, call, seen>>

-----------------------------------------------------------------------------
(* SpecFileSteps: uploads of one CAD file, and a restore and an upload     *)
(* taken step by step                                                      *)

StepCreate ==
    /\ \E u \in Engineers : Create(<<97, 49>>, "bracket", <<65>>, u)
    /\ Cardinality(DOMAIN parts') <= MaxStepParts
StepUpload ==
    /\ \E file_data \in Contents, p \in DOMAIN parts, u \in Engineers :
          SaveUpload(file_data, [stem |-> "a", suffix |-> ".prt"], p, "", u)
    /\ \A v \in DOMAIN file_versions' : v <= MaxStepVersions
StepRestoreBegin ==
    \E w \in Workers, d \in DOMAIN documents, v \in DOMAIN file_versions :
        \E u \in Engineers : RestoreBegin(w, d, v, u)
StepRestoreMove == \E w \in Workers : RestoreMove(w)
StepRestoreCopy == \E w \in Workers : RestoreCopy(w)
StepUploadOpen ==
    /\ \E w \in Workers, file_data \in Contents, p \in DOMAIN parts :
          \E u \in Engineers :
              UploadOpen(w, file_data, [stem |-> "a", suffix |-> ".prt"], p, "", u)
    /\ \A v \in DOMAIN file_versions' : v <= MaxStepVersions
StepUploadWrite == \E w \in Workers : UploadWrite(w)
StepUploadRecord == \E w \in Workers : UploadRecord(w)

NextFileSteps ==
    \/ StepCreate
    \/ StepUpload
    \/ StepRestoreBegin
    \/ StepRestoreMove
    \/ StepRestoreCopy
    \/ StepUploadOpen
    \/ StepUploadWrite
    \/ StepUploadRecord

SpecFileSteps == Init /\ [][NextFileSteps]_vars

\* C33: at every step of RestoreVersion and of SaveUpload the canonical path
\* of a document holds a complete file, the content of some upload, so a
\* download at that moment, or a failure there, never finds the canonical
\* file missing or cut short.
C33_CanonicalFileAlwaysComplete ==
    \A d \in DOMAIN documents :
        /\ documents[d].stored_path \in DOMAIN disk
        /\ disk[documents[d].stored_path] \in Contents

\* C34: after any sequence of successful RestoreVersion calls, two restores
\* of one document within one clock second included, every content displaced
\* from a canonical path is still in some file of the Temp folder: no step
\* takes a content out of the Temp folder.
C34_DisplacedContentStaysInTemp ==
    [][\A q \in DOMAIN disk :
          q.folder = "Temp"
             => \E r \in DOMAIN disk' : r.folder = "Temp" /\ disk'[r] = disk[q]]_vars

-----------------------------------------------------------------------------
(* SpecBackup: uploads of one CAD file with changing content, several of   *)
(* them within one minute                                                  *)

BackupCreate ==
    /\ \E u \in Engineers : Create(<<97, 49>>, "bracket", <<65>>, u)
    /\ MayCreate
BackupUpload ==
    /\ \E file_data \in Contents, p \in DOMAIN parts, u \in Engineers :
          SaveUpload(file_data, [stem |-> "a", suffix |-> ".prt"], p, "", u)
    /\ \A v \in DOMAIN file_versions' : v <= MaxBackupVersions
BackupMinute == TickMinute /\ now' \div 60 <= MaxBackupMinute

NextBackup == BackupCreate \/ BackupUpload \/ BackupMinute

SpecBackup == Init /\ [][NextBackup]_vars

\* The FileVersion rows of document d that no row of d was saved after.
LatestVersions(FV, d) ==
    {v \in VersionsOf(FV, d) :
        \A o \in VersionsOf(FV, d) : FV[o].saved_at <= FV[v].saved_at}

\* C35: when SaveUpload replaces the content of an existing CAD document of
\* a part whose canonical file exists, afterwards the canonical path holds
\* the uploaded bytes and the most recently saved FileVersion of the
\* document points at a backup file holding the bytes the canonical path
\* held before the call.
C35_UploadBacksUpPriorContent ==
    [][\A d \in DOMAIN documents :
          (BackupUpload /\ resp'.status = 201 /\ resp'.id = d /\ Versioned(d))
             => LET god == documents[d].stored_path
                IN  /\ god \in DOMAIN disk'
                    /\ disk'[god] = resp'.arg.file_data
                    /\ \E v \in LatestVersions(file_versions', d) :
                          LET backup == file_versions'[v].backup_path
                          IN  /\ backup \in DOMAIN disk'
                              /\ disk'[backup] = disk[god]]_vars

\* C36: in every state reached by completed SaveUpload calls, two uploads of
\* one file within one clock minute included, the backup_path of every
\* FileVersion row names a file on disk and no two rows share a backup_path.
C36_BackupFilesExistAndAreDistinct ==
    /\ \A v \in DOMAIN file_versions : file_versions[v].backup_path \in DOMAIN disk
    /\ \A v, o \in DOMAIN file_versions :
          v # o => file_versions[v].backup_path # file_versions[o].backup_path

\* C37: SaveUpload for part P and file name F changes the canonical content
\* of no Document other than the one for (P, F), so an upload of F to part
\* Q leaves the content of P's document F as it was, and distinct Document
\* rows have distinct stored_path values.
C37_UploadTouchesOnlyItsDocument ==
    /\ [](\A d, e \in DOMAIN documents :
             d # e => documents[d].stored_path # documents[e].stored_path)
    /\ [][\A d \in DOMAIN documents :
             (/\ UpsertUpload
              /\ ~(/\ documents[d].part_id = resp'.arg.part_id
                   /\ documents[d].filename = resp'.arg.filename)
              /\ documents[d].stored_path \in DOMAIN disk)
                => /\ documents[d].stored_path \in DOMAIN disk'
                   /\ disk'[documents[d].stored_path]
                         = disk[documents[d].stored_path]]_vars

\* C38: the Document record returned by SaveUpload(content, filename,
\* part_id, ...) has the filename and the part_id of that upload, also when
\* another Document row already points at the same canonical path.
C38_UploadReturnsItsOwnDocument ==
    [][(UpsertUpload /\ resp'.status = 201)
          => \A r \in resp'.ret : /\ r.filename = resp'.arg.filename
                                  /\ r.part_id = resp'.arg.part_id]_vars

-----------------------------------------------------------------------------
(* SpecCross: two CAD documents of one part, and restores of any version   *)
(* into any document                                                       *)

CadNames == { [stem |-> "a", suffix |-> ".prt"],
              [stem |-> "b", suffix |-> ".prt"] }

CrossCreate ==
    /\ \E u \in Engineers : Create(<<97, 49>>, "bracket", <<65>>, u)
    /\ Cardinality(DOMAIN parts') <= MaxCrossParts
CrossUpload ==
    /\ \E f \in CadNames, file_data \in Contents, p \in DOMAIN parts :
          \E u \in Engineers : SaveUpload(file_data, f, p, "", u)
    /\ \A d \in DOMAIN documents' : d <= MaxCrossDocs
    /\ \A v \in DOMAIN file_versions' : v <= MaxCrossVersions
CrossRestore ==
    \E d \in DOMAIN documents, v \in DOMAIN file_versions, u \in Engineers :
        RestoreVersion(d, v, u)

NextCross == CrossCreate \/ CrossUpload \/ CrossRestore

SpecCross == Init /\ [][NextCross]_vars

\* C39: RestoreVersion(document_id, version_id) changes the canonical
\* content of the document only when the version is one of that document:
\* with a FileVersion of another document the canonical file keeps its
\* bytes.
C39_RestoreOnlyOwnVersions ==
    [][\A d \in DOMAIN documents, v \in DOMAIN file_versions, u \in Users :
          (/\ RestoreVersion(d, v, u)
           /\ file_versions[v].document_id # d
           /\ documents[d].stored_path \in DOMAIN disk)
             => /\ documents[d].stored_path \in DOMAIN disk'
                /\ disk'[documents[d].stored_path]
                      = disk[documents[d].stored_path]]_vars

-----------------------------------------------------------------------------
(* PartRegistry: Delete, and the requests on a part as functions of the    *)
(* store                                                                   *)

delete_part(P, part_id) == [i \in DOMAIN P \ {part_id} |-> P[i]]

\* DELETE FROM parts WHERE id=?, with PRAGMA foreign_keys=ON.  What happens
\* to the snapshot rows of the part is decided by the DDL of
\* part_revisions.part_id: the rows go too (ON DELETE CASCADE), the
\* statement raises IntegrityError (a plain REFERENCES), or the rows stay (no
\* foreign key).  Each outcome is a record [deleted, part_revisions].
delete_part_outcomes(PR, part_id) ==
    LET others == SelectSeq(PR, LAMBDA r : r.part_id # part_id)
    IN  IF others = PR
        THEN {[deleted |-> TRUE, part_revisions |-> PR]}
        ELSE {[deleted |-> TRUE, part_revisions |-> others],
              [deleted |-> FALSE, part_revisions |-> PR],
              [deleted |-> TRUE, part_revisions |-> PR]}

\* DELETE /api/parts/{part_id}.  The part has no attributes, BOM edges or
\* documents where this request is made.
Delete(part_id, user) ==
    /\ IF get_part(parts, part_id) = None
       THEN /\ resp' = Response("delete", part_id, user, 404, NULL, None)
            /\ UNCHANGED <<parts, part_revisions, audit_log>>
       ELSE \E o \in delete_part_outcomes(part_revisions, part_id) :
                IF o.deleted
                THEN /\ parts' = delete_part(parts, part_id)
                     /\ part_revisions' = o.part_revisions
                     /\ audit_log' = _log_audit(audit_log, user, "delete_part",
                                                "part", part_id, NoDetail)
                     /\ resp' = Response("delete", part_id, user, 200, NULL, None)
                ELSE /\ resp' = Response("delete", part_id, user, 500, NULL, None)
                     /\ UNCHANGED <<parts, part_revisions, audit_log>>
    /\ UNCHANGED <<now, graphVars, docVars, reqVars>>

\* What update_part, release_part, unrelease_part, bump_revision and
\* delete_part of the router answer and write on the store (P, PR): the set
\* of records [status, parts, part_revisions].
PartOutcomes(op, P, PR, part_id, arg, user) ==
    LET out(status, P2, PR2) ==
            [status |-> status, parts |-> P2, part_revisions |-> PR2]
    IN  IF get_part(P, part_id) = None THEN {out(404, P, PR)}
        ELSE CASE op = "update" ->
                    IF P[part_id].is_locked # 0 THEN {out(423, P, PR)}
                    ELSE {out(200, update_part(P, part_id, arg), PR)}
               [] op = "release" -> {out(200, release_part(P, part_id), PR)}
               [] op = "unrelease" -> {out(200, unrelease_part(P, part_id), PR)}
               [] op = "revise" ->
                    IF chr_raises(P[part_id].part_revision)
                    THEN {out(500, P, PR)}
                    ELSE {out(200,
                              bump_write(P, part_id,
                                         next_revision(P[part_id].part_revision)),
                              Append(PR, revision_row(part_id, P[part_id], arg,
                                                      user)))}
               [] op = "delete" ->
                    {out(IF o.deleted THEN 200 ELSE 500,
                         IF o.deleted THEN delete_part(P, part_id) ELSE P,
                         o.part_revisions) :
                       o \in delete_part_outcomes(PR, part_id)}

-----------------------------------------------------------------------------
(* SpecIndep: one part, checked out and in by anybody, and every request   *)
(* that modifies it                                                        *)

IndepCreate ==
    /\ \E u \in Engineers : Create(<<97, 49>>, "bracket", <<65>>, u)
    /\ Cardinality(DOMAIN parts') <= MaxIndepParts
    /\ Budget(MaxIndepAudit)
IndepCheckout ==
    /\ \E p \in DOMAIN parts, u \in Users : Checkout(p, "ws7", u)
    /\ Budget(MaxIndepAudit)
IndepCheckin ==
    /\ \E p \in DOMAIN parts, u \in Users : Checkin(p, u)
    /\ Budget(MaxIndepAudit)
IndepUpdate ==
    /\ \E p \in PartIds, d \in PartUpdates, u \in Engineers : Update(p, d, u)
    /\ Budget(MaxIndepAudit)
IndepRelease ==
    /\ \E p \in PartIds, u \in Admins : Release(p, u)
    /\ Budget(MaxIndepAudit)
IndepUnrelease ==
    /\ \E p \in PartIds, u \in Admins : Unrelease(p, u)
    /\ Budget(MaxIndepAudit)
IndepRevise ==
    /\ \E p \in PartIds, u \in Engineers : ReviseRevision(p, "", u)
    /\ Budget(MaxIndepAudit)
IndepDelete ==
    /\ \E p \in PartIds, u \in Admins : Delete(p, u)
    /\ Budget(MaxIndepAudit)

NextIndep ==
    \/ IndepCreate
    \/ IndepCheckout
    \/ IndepCheckin
    \/ IndepUpdate
    \/ IndepRelease
    \/ IndepUnrelease
    \/ IndepRevise
    \/ IndepDelete

SpecIndep == Init /\ [][NextIndep]_vars

\* The stores that differ from P only in whether part_id is checked out, by
\* whom and where.
CheckoutVariants(P, part_id) ==
    IF part_id \notin DOMAIN P THEN {P}
    ELSE {checkin_part(P, part_id)}
         \cup {[P EXCEPT ![part_id].checked_out_by      = u,
                         ![part_id].checked_out_at      = now,
                         ![part_id].checked_out_station = st] :
                 u \in Users, st \in Stations}

NoCheckout(row) ==
    [f \in DOMAIN row \ {"checked_out_by", "checked_out_at", "checked_out_station"}
        |-> row[f]]

\* An outcome without the checkout fields of the parts and of the snapshots.
OutcomeNoCheckout(o) ==
    [status |-> o.status,
     parts |-> [i \in DOMAIN o.parts |-> NoCheckout(o.parts[i])],
     part_revisions |->
         [k \in DOMAIN o.part_revisions |->
             [o.part_revisions[k] EXCEPT !.snapshot_json = NoCheckout(@)]]]

\* C40: the outcome of Update, Release, Unrelease, ReviseRevision and Delete
\* on a part does not depend on its checkout sub-state: on every store that
\* differs from the present one only in whether the part is checked out and
\* by whom, the same call by the same actor has the status the request has
\* here and makes the same changes to all fields but the checkout fields.
C40_OutcomeIndependentOfCheckout ==
    [][(resp'.op \in {"update", "release", "unrelease", "revise", "delete"})
          => \A V \in CheckoutVariants(parts, resp'.id) :
                \E o \in PartOutcomes(resp'.op, V, part_revisions, resp'.id,
                                      resp'.arg, resp'.user) :
                    OutcomeNoCheckout(o)
                       = OutcomeNoCheckout([status |-> resp'.status,
                                            parts |-> parts',
                                            part_revisions |-> part_revisions'])]_vars

\* An engineer has updated a part that another user holds checked out.
C40_Witness ==
    /\ resp.op = "update" /\ resp.status = 200
    /\ resp.id \in DOMAIN parts
    /\ parts[resp.id].checked_out_by \notin {NULL, resp.user}

=============================================================================
